---- MODULE Spec2Model ----
(***************************************************************************)
(* Export Button for Adobe Premiere Pro: the panel script                  *)
(* (src/client/main.js) and the host script (src/host/host.jsx).           *)
(*                                                                         *)
(* Strings that the code inspects character by character (file names,      *)
(* sequence names, naming patterns, preset paths) are sequences of         *)
(* one-character strings.  Folder paths, which the code only passes        *)
(* along, are atoms; an output path folderPath + sep + fileName is the     *)
(* record [folder, name, ext].                                             *)
(***************************************************************************)
EXTENDS Integers, Sequences, FiniteSets, TLC

VARIABLES
    settings,        \* localStorage: the persisted settings
    downloadChecked, \* the download checkbox of the panel
    defaultPresets,  \* built-in preset paths, '' until getSystemInfo set them
    clock,           \* what new Date() returns
    nclicks,         \* export-button clicks made so far
    fired,           \* per click: selectionCallbackFired
    timer,           \* per click: the 3 s selection timeout is armed
    batch,           \* per click: the closure of handleBatchExport
    inflight,        \* evalScript calls sent whose callback has not run
    issued,          \* per click: the evalScript calls sent, in order
    log,             \* per click: what the click found and which replies failed
    selection,       \* host: items selected in the Project panel
    activeSequence,  \* host: index of the active sequence, 0 for none
    fs,              \* host: the folders and their entries
    ameQueue,        \* host: jobs given to app.encoder.encodeSequence
    ameStarted,      \* host: length of the queue prefix startBatch() flushed
    starts,          \* host: the calls that ran app.encoder.startBatch()
    args,            \* a function called on its own: its name and arguments
    ret              \* what the successive calls of that function returned

(***************************************************************************)
(* String helpers: the JavaScript String methods the code uses.            *)
(***************************************************************************)

Digits == <<"0", "1", "2", "3", "4", "5", "6", "7", "8", "9">>

IsDigit(ch) == \E i \in 1..10 : Digits[i] = ch

DigitVal(ch) == (CHOOSE i \in 1..10 : Digits[i] = ch) - 1

UpperCase == <<"A", "B", "C", "D", "E", "F", "G", "H", "I", "J", "K", "L", "M",
               "N", "O", "P", "Q", "R", "S", "T", "U", "V", "W", "X", "Y", "Z">>

LowerCase == <<"a", "b", "c", "d", "e", "f", "g", "h", "i", "j", "k", "l", "m",
               "n", "o", "p", "q", "r", "s", "t", "u", "v", "w", "x", "y", "z">>

\* String.prototype.toLowerCase on one character
LowerChar(ch) ==
    IF \E i \in 1..26 : UpperCase[i] = ch
    THEN LowerCase[CHOOSE i \in 1..26 : UpperCase[i] = ch]
    ELSE ch

ToLower(s) == [i \in 1..Len(s) |-> LowerChar(s[i])]

\* s.indexOf(p) === 0
StartsWith(s, p) ==
    /\ Len(p) <= Len(s)
    /\ \A i \in 1..Len(p) : s[i] = p[i]

\* s.substring(n), n a 0-based index (clamped to the length)
Substring(s, n) == IF n >= Len(s) THEN <<>> ELSE SubSeq(s, n + 1, Len(s))

\* s.substring(0, n)
Prefix(s, n) == IF n <= 0 THEN <<>> ELSE SubSeq(s, 1, IF n > Len(s) THEN Len(s) ELSE n)

\* s.lastIndexOf(ch): 0-based index of the last occurrence, -1 if none
LastIndexOf(s, ch) ==
    IF \E i \in 1..Len(s) : s[i] = ch
    THEN (CHOOSE i \in 1..Len(s) : s[i] = ch /\ \A j \in (i+1)..Len(s) : s[j] # ch) - 1
    ELSE -1

\* s.indexOf(p) !== -1
Contains(s, p) ==
    \E i \in 1..(Len(s) - Len(p) + 1) : SubSeq(s, i, i + Len(p) - 1) = p

\* String(n) for n >= 0
RECURSIVE NumToStr(_)
NumToStr(n) == IF n < 10 THEN <<Digits[n + 1]>>
               ELSE NumToStr(n \div 10) \o <<Digits[(n % 10) + 1]>>

\* parseInt(s) of a run of decimal digits
RECURSIVE ParseInt(_)
ParseInt(s) == IF s = <<>> THEN 0
               ELSE 10 * ParseInt(SubSeq(s, 1, Len(s) - 1)) + DigitVal(s[Len(s)])

\* String.prototype.padStart(width, '0'): pads on the left, never truncates
RECURSIVE PadStart(_, _)
PadStart(s, width) == IF Len(s) >= width THEN s ELSE PadStart(<<"0">> \o s, width)

\* parseInt(s) without a radix, s a run of decimal digits.  The engine is
\* ECMAScript 3: a string that begins with 0 is read as octal or as decimal
\* at the implementation's discretion (octal); read as octal, the number
\* ends before the first digit 8 or 9.
RECURSIVE OctalRun(_, _)
OctalRun(s, i) == IF i > Len(s) \/ DigitVal(s[i]) > 7 THEN <<>>
                  ELSE <<s[i]>> \o OctalRun(s, i + 1)

RECURSIVE ParseOctal(_)
ParseOctal(s) == IF s = <<>> THEN 0
                 ELSE 8 * ParseOctal(SubSeq(s, 1, Len(s) - 1)) + DigitVal(s[Len(s)])

ParseIntNoRadix(s, octal) ==
    IF octal /\ s # <<>> /\ s[1] = "0" THEN ParseOctal(OctalRun(s, 1)) ELSE ParseInt(s)

\* the longest run of digits of s that begins at 1-based position i
RECURSIVE DigitRun(_, _)
DigitRun(s, i) == IF i > Len(s) \/ ~IsDigit(s[i]) THEN <<>>
                  ELSE <<s[i]>> \o DigitRun(s, i + 1)

(***************************************************************************)
(* Filename Resolver, host side (src/host/host.jsx).                       *)
(* A folder is [exists, entries]; an entry is [name, isFile].  env is     *)
(* [throws, octal]: Folder.getFiles() raises (the try block's catch is     *)
(* taken), and how the engine's parseInt reads a leading 0.                *)
(***************************************************************************)

\* rest.match(/_V(\d+)/i): the capture of the leftmost match, <<>> when none
MatchVersionMarker(rest) ==
    LET hits == {i \in 1..Len(rest) :
                    /\ i + 2 <= Len(rest)
                    /\ rest[i] = "_"
                    /\ LowerChar(rest[i + 1]) = "v"
                    /\ IsDigit(rest[i + 2])}
    IN  IF hits = {} THEN <<>>
        ELSE DigitRun(rest, (CHOOSE i \in hits : \A j \in hits : i <= j) + 2)

\* one pass of the scan loop over a File entry: the version the entry
\* contributes, 0 when it contributes none
CandidateVersion(name, baseName, octal) ==
    IF StartsWith(ToLower(name), ToLower(baseName))
    THEN LET rest0  == Substring(name, Len(baseName))
             dotIdx == LastIndexOf(rest0, ".")
             rest   == IF dotIdx > 0 THEN Prefix(rest0, dotIdx) ELSE rest0
             vMatch == MatchVersionMarker(rest)
         IN  IF vMatch # <<>> THEN ParseIntNoRadix(vMatch, octal) ELSE 0
    ELSE 0

MaxOf(S) == IF S = {} THEN 0 ELSE CHOOSE m \in S : \A x \in S : x <= m

\* as ExportButton_getNextVersionedFilenameWithPattern, but treating a
\* folder that does not exist as a failure
ExportButton_getNextVersionedFilenameWithPatternNeedingFolder(env, folder, baseName, extension, suffixPattern) ==
    IF ~folder.exists \/ env.throws THEN [success |-> FALSE, version |-> 1]
    ELSE LET maxVer == MaxOf({CandidateVersion(e.name, baseName, env.octal) :
                                 e \in {x \in folder.entries : x.isFile}})
         IN  [success |-> TRUE, version |-> maxVer + 1]

\* as ExportButton_getNextVersionedFilenameWithPattern, but scanning only
\* the files that carry the extension asked for
ExportButton_getNextVersionedFilenameWithPatternSameExtension(env, folder, baseName, extension, suffixPattern) ==
    LET ext  == IF extension = "mp4" THEN <<".", "m", "p", "4">> ELSE <<".", "w", "a", "v">>
        same == {x \in folder.entries :
                    /\ x.isFile
                    /\ Len(x.name) >= Len(ext)
                    /\ ToLower(Substring(x.name, Len(x.name) - Len(ext))) = ext}
    IN  IF ~folder.exists THEN [success |-> TRUE, version |-> 1]
        ELSE IF env.throws THEN [success |-> FALSE, version |-> 1]
        ELSE [success |-> TRUE,
              version |-> MaxOf({CandidateVersion(e.name, baseName, env.octal) :
                                    e \in same}) + 1]

ExportButton_getNextVersionedFilenameWithPattern(env, folder, baseName, extension, suffixPattern) ==
    IF ~folder.exists THEN [success |-> TRUE, version |-> 1]
    ELSE IF env.throws THEN [success |-> FALSE, version |-> 1]
    ELSE LET maxVer == MaxOf({CandidateVersion(e.name, baseName, env.octal) :
                                 e \in {x \in folder.entries : x.isFile}})
         IN  [success |-> TRUE, version |-> maxVer + 1]

(***************************************************************************)
(* Token pattern renderer, panel side (src/client/main.js).                *)
(* The clock is [year, month, date, hours, minutes], month 0-based as      *)
(* Date.getMonth() returns it.                                             *)
(***************************************************************************)

\* number of letters V or v of s from 1-based position i on
RECURSIVE VRun(_, _)
VRun(s, i) == IF i > Len(s) \/ LowerChar(s[i]) # "v" THEN 0 ELSE 1 + VRun(s, i + 1)

\* pattern.replace(/\{(V+)\}/gi, function (match, vChars) { padStart }), from i on
RECURSIVE ReplaceVersionTokens(_, _, _)
ReplaceVersionTokens(s, i, version) ==
    IF i > Len(s) THEN <<>>
    ELSE LET k == IF s[i] = "{" THEN VRun(s, i + 1) ELSE 0
         IN  IF k > 0 /\ i + k + 1 <= Len(s) /\ s[i + k + 1] = "}"
             THEN PadStart(NumToStr(version), k) \o ReplaceVersionTokens(s, i + k + 2, version)
             ELSE <<s[i]>> \o ReplaceVersionTokens(s, i + 1, version)

\* the backquote character (written as an atom: the lexer reserves the sign)
BackQuote == "bq"

\* GetSubstitution for a replacement string: dollar followed by dollar,
\* ampersand, backquote or quote is special (no capture group exists)
RECURSIVE ExpandReplacement(_, _, _, _, _)
ExpandReplacement(repl, i, matched, before, after) ==
    IF i > Len(repl) THEN <<>>
    ELSE IF repl[i] = "$" /\ i < Len(repl) /\ repl[i + 1] \in {"$", "&", BackQuote, "'"}
    THEN (CASE repl[i + 1] = "$" -> <<"$">>
            [] repl[i + 1] = "&" -> matched
            [] repl[i + 1] = BackQuote -> before
            [] OTHER            -> after)
         \o ExpandReplacement(repl, i + 2, matched, before, after)
    ELSE <<repl[i]>> \o ExpandReplacement(repl, i + 1, matched, before, after)

\* s.replace(/token/gi, repl) for a literal token given in lower case, from i on
RECURSIVE ReplaceToken(_, _, _, _)
ReplaceToken(s, i, token, repl) ==
    IF i > Len(s) THEN <<>>
    ELSE LET n == Len(token)
         IN  IF i + n - 1 <= Len(s) /\ ToLower(SubSeq(s, i, i + n - 1)) = token
             THEN ExpandReplacement(repl, 1, SubSeq(s, i, i + n - 1),
                                    SubSeq(s, 1, i - 1), SubSeq(s, i + n, Len(s)))
                  \o ReplaceToken(s, i + n, token, repl)
             ELSE <<s[i]>> \o ReplaceToken(s, i + 1, token, repl)

DateStr(now) == NumToStr(now.year) \o <<"-">> \o PadStart(NumToStr(now.month + 1), 2)
                \o <<"-">> \o PadStart(NumToStr(now.date), 2)

TimeStr(now) == PadStart(NumToStr(now.hours), 2) \o <<"-">> \o PadStart(NumToStr(now.minutes), 2)

\* as parseSuffixPattern, but the version token is {V} alone and is not padded
parseSuffixPatternOneLetter(pattern, version, sequenceName, now) ==
    LET r1 == ReplaceToken(pattern, 1, <<"{", "v", "}">>, NumToStr(version))
        r2 == ReplaceToken(r1, 1, <<"{", "d", "a", "t", "e", "}">>, DateStr(now))
        r3 == ReplaceToken(r2, 1, <<"{", "t", "i", "m", "e", "}">>, TimeStr(now))
    IN  ReplaceToken(r3, 1, <<"{", "s", "e", "q", "}">>, sequenceName)

\* as parseSuffixPattern, but what is left of a brace token is removed
parseSuffixPatternDroppingTokens(pattern, version, sequenceName, now) ==
    LET r1 == ReplaceVersionTokens(pattern, 1, version)
        r2 == ReplaceToken(r1, 1, <<"{", "d", "a", "t", "e", "}">>, DateStr(now))
        r3 == ReplaceToken(r2, 1, <<"{", "t", "i", "m", "e", "}">>, TimeStr(now))
        r4 == ReplaceToken(r3, 1, <<"{", "s", "e", "q", "}">>, sequenceName)
        r5 == ReplaceToken(r4, 1, <<"{", "x", "}">>, <<>>)
    IN  ReplaceToken(r5, 1, <<"{", "}">>, <<>>)

\* as parseSuffixPattern, but with the pattern read from the saved settings
parseSuffixPatternOfSettings(pattern, version, sequenceName, now) ==
    LET saved == settings.suffixPattern
        r1 == ReplaceVersionTokens(IF saved = <<>> THEN pattern ELSE saved, 1, version)
        r2 == ReplaceToken(r1, 1, <<"{", "d", "a", "t", "e", "}">>, DateStr(now))
        r3 == ReplaceToken(r2, 1, <<"{", "t", "i", "m", "e", "}">>, TimeStr(now))
    IN  ReplaceToken(r3, 1, <<"{", "s", "e", "q", "}">>, sequenceName)

parseSuffixPattern(pattern, version, sequenceName, now) ==
    LET r1 == ReplaceVersionTokens(pattern, 1, version)
        r2 == ReplaceToken(r1, 1, <<"{", "d", "a", "t", "e", "}">>, DateStr(now))
        r3 == ReplaceToken(r2, 1, <<"{", "t", "i", "m", "e", "}">>, TimeStr(now))
    IN  ReplaceToken(r3, 1, <<"{", "s", "e", "q", "}">>, sequenceName)

\* as CleanName, but keeping the slash
CleanNameKeepingSlash(seqName) ==
    [i \in 1..Len(seqName) |->
        IF seqName[i] \in {"<", ">", ":", "\"", "\\", "|", "?", "*"} THEN "_"
        ELSE seqName[i]]

\* seqName.replace(/[<>:"/\\|?*]/g, '_')
CleanName(seqName) ==
    [i \in 1..Len(seqName) |->
        IF seqName[i] \in {"<", ">", ":", "\"", "/", "\\", "|", "?", "*"} THEN "_"
        ELSE seqName[i]]

(***************************************************************************)
(* Bounds and the inputs the model draws from.                             *)
(***************************************************************************)

\* export-button clicks made in one behaviour
MaxClicks == 2

\* project items selected in the Project panel
MaxSel == 3

Clicks == 1..MaxClicks

\* sequence and file names
NameA    == <<"A">>
NameAcB  == <<"A", ":", "B">>
NameAsB  == <<"A", "/", "B">>

\* naming patterns: the default, and one whose version has no _V marker
PatDefault == <<"{", "S", "E", "Q", "}", "_", "V", "{", "V", "}">>
PatNoMark  == <<"{", "S", "E", "Q", "}", "_", "{", "V", "}">>

\* a video track of a sequence: number of clips, and whether it is muted
\* (hasIsMuted: the track object offers isMuted())
TrackClips  == [numItems |-> 1, hasIsMuted |-> TRUE, muted |-> FALSE]
TrackMuted  == [numItems |-> 1, hasIsMuted |-> TRUE, muted |-> TRUE]
TrackEmpty  == [numItems |-> 0, hasIsMuted |-> TRUE, muted |-> FALSE]

\* app.project: the project items in Project-panel order.  Two sequences
\* share the name A (they sit in different bins), A:B and A/B differ only
\* in a character that is invalid in file names, Bin is no sequence.
ProjectItems ==
    << [name |-> NameA,   isSequence |-> TRUE,  tracks |-> <<TrackClips>>],
       [name |-> NameA,   isSequence |-> TRUE,  tracks |-> <<TrackMuted, TrackEmpty>>],
       [name |-> NameAcB, isSequence |-> TRUE,  tracks |-> <<TrackEmpty, TrackClips>>],
       [name |-> <<"B", "i", "n">>, isSequence |-> FALSE, tracks |-> <<>>],
       [name |-> NameAsB, isSequence |-> TRUE,  tracks |-> <<>>] >>

\* app.project.sequences
ProjectSequences == SelectSeq(ProjectItems, LAMBDA it : it.isSequence)

\* what app.getCurrentProjectViewSelection() can return: the runs of at
\* most MaxSel neighbouring items of the Project panel
Selections ==
    {<<>>} \cup
    UNION {{SubSeq(ProjectItems, i, j) :
                j \in {k \in i..Len(ProjectItems) : k - i < MaxSel}} :
           i \in 1..Len(ProjectItems)}

\* folder paths, as the host's fsName gives them
ExportsDir   == "/proj/EXPORTS"
DownloadsDir == "/home/Downloads"
FixedDir     == "/custom/out"

\* preset paths: a user preset, and the built-in defaults of getSystemInfo
\* (shortened to the words getExtensionFromPreset looks for)
UserVideoPreset    == <<"/", "p", "/", "P", "r", "o", "R", "e", "s">>
UserAudioPreset    == <<"/", "p", "/", "A", "I", "F", "F">>
DefaultVideoPreset == <<"/", "s", "/", "Y", "o", "u", "T", "u", "b", "e">>
DefaultAudioPreset == <<"/", "s", "/", "W", "A", "V">>

\* Date values the clock takes
Clock1 == [year |-> 2026, month |-> 0, date |-> 9, hours |-> 7, minutes |-> 5]
Clock2 == [year |-> 2026, month |-> 0, date |-> 9, hours |-> 7, minutes |-> 6]

File(name) == [name |-> name, isFile |-> TRUE]

\* contents a folder starts with
FolderContents ==
    { {},
      {File(<<"A", "_", "V", "1", ".", "m", "p", "4">>),
       File(<<"A", "_", "2", ".", "m", "p", "4">>),
       File(<<"A", "_", "B", "_", "V", "1", ".", "w", "a", "v">>)} }

(***************************************************************************)
(* Host script (src/host/host.jsx).  env holds what the host finds when    *)
(* the call runs; every function returns the object it JSON-encodes.       *)
(***************************************************************************)

\* the sequences of the selected items, as {name} objects
ExportButton_getSelectedSequences(env, selectedItems) ==
    IF ~env.projectOpen \/ env.throws
    THEN [success |-> FALSE, sequences |-> <<>>, count |-> 0]
    ELSE IF ~env.selectionApi \/ env.selectionThrows \/ Len(selectedItems) = 0
    THEN [success |-> TRUE, sequences |-> <<>>, count |-> 0]
    ELSE LET sequences == SelectSeq(selectedItems, LAMBDA it : it.isSequence)
         IN  [success |-> TRUE,
              sequences |-> [k \in 1..Len(sequences) |-> [name |-> sequences[k].name]],
              count |-> Len(sequences)]

\* index in app.project.sequences of the first sequence of that name, 0 for null
ExportButton_findSequenceByName(sequenceName) ==
    LET hits == {i \in 1..Len(ProjectSequences) : ProjectSequences[i].name = sequenceName}
    IN  IF hits = {} THEN 0 ELSE CHOOSE i \in hits : \A j \in hits : i <= j

\* as HasVisibleVideo, but without asking the track whether it is muted
HasVisibleVideoIgnoringMute(tracks) ==
    \E i \in 1..Len(tracks) : tracks[i].numItems > 0

\* the track loop shared by hasVideoForSequence and hasVideoTracks
HasVisibleVideo(tracks) ==
    \E i \in 1..Len(tracks) :
        /\ tracks[i].numItems > 0
        /\ ~(tracks[i].hasIsMuted /\ tracks[i].muted)

ExportButton_hasVideoForSequence(env, sequenceName) ==
    LET seq == ExportButton_findSequenceByName(sequenceName)
    IN  IF seq = 0 \/ env.throws THEN [success |-> FALSE, hasVideo |-> FALSE]
        ELSE [success |-> TRUE, hasVideo |-> HasVisibleVideo(ProjectSequences[seq].tracks)]

\* new File(presetPath).exists
PresetExists(env, presetPath) == presetPath # <<>> /\ env.presetExists

\* a job of the encoder queue, as app.encoder.encodeSequence receives it,
\* with the click and the batch item it was queued for; range 0 is the
\* entire sequence, 1 the In/Out work area
Job(c, item, seq, outputPath, presetPath, range) ==
    [click |-> c, item |-> item, seq |-> seq, out |-> outputPath, preset |-> presetPath,
     range |-> range]

\* as ExportButton_exportSequenceByName, but starting the queue after each
\* job, the way ExportButton_exportToAMEWithOptions does
ExportButton_exportSequenceByNameStarting(env, sequenceName, outputPath, presetPath) ==
    LET seq == ExportButton_findSequenceByName(sequenceName)
    IN  IF ~env.encoder \/ seq = 0 \/ ~PresetExists(env, presetPath) \/ env.throws
        THEN [success |-> FALSE, queued |-> FALSE, seq |-> seq, range |-> 0, start |-> FALSE]
        ELSE [success |-> env.jobID, queued |-> env.jobID, seq |-> seq, range |-> 0,
              start |-> env.jobID]

\* result, whether a job was queued, and whether startBatch() was called
ExportButton_exportSequenceByName(env, sequenceName, outputPath, presetPath) ==
    LET seq == ExportButton_findSequenceByName(sequenceName)
    IN  IF ~env.encoder \/ seq = 0 \/ ~PresetExists(env, presetPath) \/ env.throws
        THEN [success |-> FALSE, queued |-> FALSE, seq |-> seq, range |-> 0, start |-> FALSE]
        ELSE [success |-> env.jobID, queued |-> env.jobID, seq |-> seq, range |-> 0,
              start |-> FALSE]

ExportButton_startAMEBatch(env) ==
    IF env.encoder /\ ~env.throws THEN [success |-> TRUE, start |-> TRUE]
    ELSE [success |-> FALSE, start |-> FALSE]

\* index of app.project.activeSequence in app.project.sequences, 0 for none
ExportButton_getActiveSequence(env, active) ==
    IF ~env.projectOpen \/ active = 0 \/ env.throws
    THEN [success |-> FALSE, name |-> <<>>]
    ELSE [success |-> TRUE, name |-> ProjectSequences[active].name]

ExportButton_hasVideoTracks(env, active) ==
    IF active = 0 \/ env.throws THEN [success |-> FALSE, hasVideo |-> FALSE]
    ELSE [success |-> TRUE, hasVideo |-> HasVisibleVideo(ProjectSequences[active].tracks)]

\* on a caught error the object has no downloadsPath ("" stands for undefined)
ExportButton_getSystemInfo(env) ==
    IF env.throws THEN [downloadsPath |-> ""]
    ELSE [downloadsPath |-> DownloadsDir]

\* the EXPORTS folder beside the project (one level up from a PROJET folder)
ExportButton_getProjectExportsPath(env) ==
    IF ~env.projectOpen \/ env.throws THEN [success |-> FALSE, path |-> ""]
    ELSE [success |-> TRUE, path |-> ExportsDir]

\* depth levels above the project file's folder, then the custom folder name
ExportButton_getProjectExportsPathWithDepth(env, customFolderName, depth) ==
    IF ~env.projectOpen \/ env.throws THEN [success |-> FALSE, path |-> ""]
    ELSE [success |-> TRUE,
          path |-> IF (customFolderName = "" \/ customFolderName = "EXPORTS") /\ depth <= 0
                   THEN ExportsDir
                   ELSE "/proj/up/custom"]

\* as ExportButton_exportToAMEWithOptions, but leaving the queue unstarted
ExportButton_exportToAMEWithOptionsNotStarting(env, active, outputPath, presetPath, useInOut) ==
    IF ~env.encoder \/ active = 0 \/ ~PresetExists(env, presetPath) \/ env.throws
    THEN [success |-> FALSE, queued |-> FALSE, seq |-> active, range |-> 0, start |-> FALSE]
    ELSE [success |-> env.jobID, queued |-> env.jobID, seq |-> active,
          range |-> IF useInOut THEN 1 ELSE 0, start |-> FALSE]

\* queue the active sequence and start the batch in the same call
ExportButton_exportToAMEWithOptions(env, active, outputPath, presetPath, useInOut) ==
    IF ~env.encoder \/ active = 0 \/ ~PresetExists(env, presetPath) \/ env.throws
    THEN [success |-> FALSE, queued |-> FALSE, seq |-> active, range |-> 0, start |-> FALSE]
    ELSE [success |-> env.jobID, queued |-> env.jobID, seq |-> active,
          range |-> IF useInOut THEN 1 ELSE 0, start |-> env.jobID]

\* render in process: nothing reaches the encoder queue.  env.jobID stands
\* for exportAsMediaDirect returning true or the output file existing.
ExportButton_exportDirectInPremiere(env, active, outputPath, presetPath, useInOut) ==
    IF active = 0 \/ ~PresetExists(env, presetPath) \/ env.throws
    THEN [success |-> FALSE, queued |-> FALSE, seq |-> active, range |-> 0, start |-> FALSE]
    ELSE [success |-> env.jobID, queued |-> FALSE, seq |-> active,
          range |-> IF useInOut THEN 1 ELSE 0, start |-> FALSE]

\* What the host can find when a call runs.  engine: the ExtendScript
\* engine evaluates the script; otherwise evalScript hands the callback a
\* text that JSON.parse rejects ("EvalScript error.").
SelectionEnvs ==
    [engine : BOOLEAN, projectOpen : BOOLEAN, throws : BOOLEAN,
     selectionApi : BOOLEAN, selectionThrows : BOOLEAN]

\* for the functions that ask for app.project
QueryEnvs == [engine : BOOLEAN, projectOpen : BOOLEAN, throws : BOOLEAN]

\* for the functions that can only run or throw
CallEnvs == [engine : BOOLEAN, throws : BOOLEAN]

\* the same for the resolver, with the engine's reading of a leading 0
VersionEnvs == [engine : BOOLEAN, throws : BOOLEAN, octal : BOOLEAN]

\* for ExportButton_startAMEBatch
StartEnvs == [engine : BOOLEAN, encoder : BOOLEAN, throws : BOOLEAN]

EncodeEnvs ==
    [engine : BOOLEAN, encoder : BOOLEAN, presetExists : BOOLEAN,
     jobID : BOOLEAN, throws : BOOLEAN]

\* the functions host.jsx defines; evaluating a call of any other name
\* raises a ReferenceError in the engine
HostFunctions ==
    {"ExportButton_getSystemInfo", "ExportButton_getActiveSequence",
     "ExportButton_getSelectedSequences", "ExportButton_hasVideoTracks",
     "ExportButton_hasVideoForSequence", "ExportButton_exportSequenceByName",
     "ExportButton_startAMEBatch", "ExportButton_getProjectExportsPath",
     "ExportButton_getNextVersionedFilenameWithPattern",
     "ExportButton_getProjectExportsPathWithDepth",
     "ExportButton_exportToAMEWithOptions", "ExportButton_exportDirectInPremiere"}

\* JSON.parse(result) succeeds
Parsable(env, fn) == env.engine /\ fn \in HostFunctions

(***************************************************************************)
(* State.                                                                  *)
(***************************************************************************)

panelVars == <<settings, downloadChecked, defaultPresets, clock>>
clickVars == <<nclicks, fired, timer, batch>>
hostVars  == <<selection, activeSequence, fs, ameQueue, ameStarted, starts>>
unitVars  == <<args, ret>>
vars == <<settings, downloadChecked, defaultPresets, clock, nclicks, fired, timer,
          batch, inflight, issued, log, selection, activeSequence, fs, ameQueue,
          ameStarted, starts, args, ret>>

\* the closure of a click that started no batch
NoBatch == [state |-> "none", sequences |-> <<>>, downloadEnabled |-> FALSE,
            totalCount |-> 0, successCount |-> 0, errorCount |-> 0, currentIndex |-> 0]

\* what the settings form can hold when it is saved: everything left at
\* its default; direct export with a preset of the user's; a pattern
\* without the _V marker and a fixed download folder
FormDefault ==
    [videoPreset |-> <<>>, audioPreset |-> <<>>, suffixPattern |-> <<>>,
     inoutExport |-> FALSE, exportFolder |-> "", folderDepth |-> "",
     fixedFolder |-> "", premiereDirect |-> FALSE]

SettingsForms ==
    {FormDefault,
     [FormDefault EXCEPT !.premiereDirect = TRUE, !.videoPreset = UserVideoPreset],
     [FormDefault EXCEPT !.suffixPattern = PatNoMark, !.fixedFolder = FixedDir,
                         !.exportFolder = "custom", !.videoPreset = UserVideoPreset,
                         !.audioPreset = UserAudioPreset]}

\* the form with "Export In/Out range only" ticked and the rest left alone
FormInOut == [FormDefault EXCEPT !.inoutExport = TRUE]

\* as BoolStr, but storing the flag as a number
BoolStrAsNumber(b) == IF b THEN "1" ELSE "0"

\* String(value) of a checkbox state, as localStorage.setItem stores it
BoolStr(b) == IF b THEN "true" ELSE "false"

\* the keys saveSettings writes, with the defaults it substitutes
saveSettings(form) ==
    [videoPreset    |-> form.videoPreset,
     audioPreset    |-> form.audioPreset,
     suffixPattern  |-> IF form.suffixPattern = <<>> THEN PatDefault ELSE form.suffixPattern,
     inoutExport    |-> BoolStr(form.inoutExport),
     exportFolder   |-> IF form.exportFolder = "" THEN "EXPORTS" ELSE form.exportFolder,
     folderDepth    |-> IF form.folderDepth = "" THEN "0" ELSE form.folderDepth,
     fixedFolder    |-> form.fixedFolder,
     premiereDirect |-> BoolStr(form.premiereDirect)]

\* localStorage of a fresh installation: getItem returns null for every key
\* ("" and <<>> stand for null, which the code tests with || only)
FreshSettings ==
    [videoPreset |-> <<>>, audioPreset |-> <<>>, suffixPattern |-> <<>>,
     inoutExport |-> "null", exportFolder |-> "", folderDepth |-> "",
     fixedFolder |-> "", premiereDirect |-> "null", downloadEnabled |-> "null"]

\* localStorage.setItem(key, value) for every key of items
setItems(store, items) ==
    [k \in DOMAIN store |-> IF k \in DOMAIN items THEN items[k] ELSE store[k]]

\* localStorage after the settings dialog was saved in a fresh installation
SavedStore(form) == setItems(FreshSettings, saveSettings(form))

\* the stores of S with the download checkbox never touched, or left set
WithDownload(S) == {[s EXCEPT !.downloadEnabled = d] : s \in S, d \in {"null", "true"}}

\* the state loadSettings gives the download checkbox at start-up
loadSettings(store) == store.downloadEnabled = "true"

Folder(entries) == [exists |-> TRUE, entries |-> entries]

\* the folder object the resolver inspects; a path that names no folder of
\* the model does not exist
FolderAt(path) ==
    IF path \in DOMAIN fs
    THEN [exists |-> fs[path].exists, entries |-> fs[path].entries]
    ELSE [exists |-> FALSE, entries |-> {}]

\* everything but the settings, the checkbox, the selection, the active
\* sequence and the folders, which a specification draws from its inputs
Start ==
    /\ defaultPresets = [video |-> DefaultVideoPreset, audio |-> DefaultAudioPreset]
    /\ clock = Clock1
    /\ nclicks = 0
    /\ fired = [c \in Clicks |-> FALSE]
    /\ timer = [c \in Clicks |-> FALSE]
    /\ batch = [c \in Clicks |-> NoBatch]
    /\ inflight = {}
    /\ issued = [c \in Clicks |-> <<>>]
    /\ log = [c \in Clicks |-> {}]
    /\ ameQueue = <<>>
    /\ ameStarted = 0
    /\ starts = <<>>

\* no function is called on its own
NoUnitCall == args = [fn |-> "none"] /\ ret = <<>>

Init ==
    /\ Start
    /\ NoUnitCall
    /\ settings \in WithDownload({FreshSettings} \cup
                                  {SavedStore(f) : f \in SettingsForms \ {FormDefault}})
    /\ downloadChecked = loadSettings(settings)
    /\ selection \in Selections
    /\ activeSequence \in IF selection = <<>> THEN {0, 1, 4} ELSE {4}
    /\ \E content \in FolderContents :
           fs = [d \in {ExportsDir, DownloadsDir, FixedDir} |-> Folder(content)]

(***************************************************************************)
(* Panel script (src/client/main.js).                                      *)
(***************************************************************************)

\* an evalScript call in flight: the script and what its callback closes
\* over (owner: the function that passed the callback)
Call(c, owner, fn, idx, ctx) ==
    [click |-> c, owner |-> owner, fn |-> fn, idx |-> idx, ctx |-> ctx]

NoCtx == [none |-> TRUE]

\* csInterface.evalScript(script, callback), sent by the callback of the
\* calls in done (which have thereby completed)
evalScript(c, done, owner, fn, idx, ctx) ==
    /\ inflight' = (inflight \ done) \cup {Call(c, owner, fn, idx, ctx)}
    /\ issued' = [issued EXCEPT ![c] = Append(@, [fn |-> fn, idx |-> idx])]

\* a callback that returns without sending anything
Return(done) ==
    /\ inflight' = inflight \ done
    /\ UNCHANGED issued

\* a reply is ok when JSON.parse accepts it and the object says success
Outcome(parsed, success) == IF parsed /\ success THEN "ok" ELSE "failed"

Entry(fn, idx, outcome) == [fn |-> fn, idx |-> idx, outcome |-> outcome]

\* keep the replies that were not ok
Logged(c, fn, idx, outcome) ==
    log' = IF outcome = "ok" THEN log
           ELSE [log EXCEPT ![c] = @ \cup {Entry(fn, idx, outcome)}]

\* localStorage.getItem(key) || fallback
OrElse(value, fallback) == IF value = <<>> THEN fallback ELSE value

\* as PresetFor, but with the video preset whatever the sequence holds
PresetForVideo(hasVideo) == OrElse(settings.videoPreset, defaultPresets.video)

PresetFor(hasVideo) ==
    IF hasVideo THEN OrElse(settings.videoPreset, defaultPresets.video)
    ELSE OrElse(settings.audioPreset, defaultPresets.audio)

handleSingleExport(c, done) ==
    evalScript(c, done, "handleSingleExport", "ExportButton_getActiveSequence", 0, NoCtx)

\* b: the closure's variables as the caller leaves them
processNextSequence(c, b, done) ==
    IF b.currentIndex >= b.totalCount
    THEN /\ batch' = [batch EXCEPT ![c] = [b EXCEPT !.state = "finalizing"]]
         /\ evalScript(c, done, "processNextSequence", "ExportButton_startAMEBatch",
                       b.currentIndex, NoCtx)
    ELSE /\ batch' = [batch EXCEPT ![c] = b]
         /\ evalScript(c, done, "processNextSequence", "ExportButton_hasVideoForSequence",
                       b.currentIndex,
                       [seqName |-> b.sequences[b.currentIndex + 1].name])

\* as handleBatchExport, but sending the video check of every item at once
handleBatchExportFanOut(c, sequences, done) ==
    /\ batch' = [batch EXCEPT ![c] =
                    [state |-> "running", sequences |-> sequences,
                     downloadEnabled |-> downloadChecked,
                     totalCount |-> Len(sequences), successCount |-> 0,
                     errorCount |-> 0, currentIndex |-> 0]]
    /\ inflight' = (inflight \ done) \cup
                   {Call(c, "processNextSequence", "ExportButton_hasVideoForSequence", k - 1,
                         [seqName |-> sequences[k].name]) : k \in 1..Len(sequences)}
    /\ issued' = [issued EXCEPT ![c] =
                     @ \o [k \in 1..Len(sequences) |->
                               [fn |-> "ExportButton_hasVideoForSequence", idx |-> k - 1]]]

handleBatchExport(c, sequences, done) ==
    processNextSequence(c, [state |-> "running", sequences |-> sequences,
                            downloadEnabled |-> downloadChecked,
                            totalCount |-> Len(sequences), successCount |-> 0,
                            errorCount |-> 0, currentIndex |-> 0], done)

\* as ItemFailed, but without the call of processNextSequence
ItemFailedStopping(c, done) ==
    /\ batch' = [batch EXCEPT ![c].errorCount = @ + 1, ![c].currentIndex = @ + 1]
    /\ Return(done)

\* as ItemQueued, but without the call of processNextSequence
ItemQueuedStopping(c, done) ==
    /\ batch' = [batch EXCEPT ![c].successCount = @ + 1, ![c].currentIndex = @ + 1]
    /\ Return(done)

\* as ItemQueued, but counting the item as an error as well
ItemQueuedCountedTwice(c, done) ==
    processNextSequence(c, [batch[c] EXCEPT !.successCount = @ + 1,
                                            !.errorCount = @ + 1,
                                            !.currentIndex = @ + 1], done)

\* as ItemFailed, but without counting the error
ItemFailedUncounted(c, done) ==
    processNextSequence(c, [batch[c] EXCEPT !.currentIndex = @ + 1], done)

\* errorCount++; currentIndex++; processNextSequence();
ItemFailed(c, done) ==
    processNextSequence(c, [batch[c] EXCEPT !.errorCount = @ + 1,
                                            !.currentIndex = @ + 1], done)

\* successCount++; currentIndex++; processNextSequence();
ItemQueued(c, done) ==
    processNextSequence(c, [batch[c] EXCEPT !.successCount = @ + 1,
                                            !.currentIndex = @ + 1], done)

\* as handleExport, but without the test of the direct-export setting
handleExportAlwaysQuerying ==
    /\ nclicks + 1 \in Clicks
    /\ LET c == nclicks + 1 IN
        /\ nclicks' = c
        /\ fired' = [fired EXCEPT ![c] = FALSE]
        /\ timer' = [timer EXCEPT ![c] = TRUE]
        /\ evalScript(c, {}, "handleExport", "ExportButton_getSelectedSequences", 0, NoCtx)
        /\ log' = [log EXCEPT ![c] = {Entry("premiereDirect", 0, settings.premiereDirect)}]
    /\ UNCHANGED <<unitVars, batch, panelVars, hostVars>>

\* as handleExport, but writing the mode it read back to localStorage
handleExportStoringMode ==
    /\ nclicks + 1 \in Clicks
    /\ LET c == nclicks + 1 IN
        /\ nclicks' = c
        /\ IF settings.premiereDirect = "true"
           THEN /\ handleSingleExport(c, {})
                /\ UNCHANGED <<fired, timer>>
           ELSE /\ fired' = [fired EXCEPT ![c] = FALSE]
                /\ timer' = [timer EXCEPT ![c] = TRUE]
                /\ evalScript(c, {}, "handleExport", "ExportButton_getSelectedSequences",
                              0, NoCtx)
        /\ log' = [log EXCEPT ![c] = {Entry("premiereDirect", 0, settings.premiereDirect)}]
    /\ settings' = [settings EXCEPT !.premiereDirect = BoolStr(@ = "true")]
    /\ UNCHANGED <<unitVars, batch, downloadChecked, defaultPresets, clock, hostVars>>

\* the export-button click handler
handleExport ==
    /\ nclicks + 1 \in Clicks
    /\ LET c == nclicks + 1 IN
        /\ nclicks' = c
        /\ IF settings.premiereDirect = "true"
           THEN /\ handleSingleExport(c, {})
                /\ UNCHANGED <<fired, timer>>
           ELSE /\ fired' = [fired EXCEPT ![c] = FALSE]
                /\ timer' = [timer EXCEPT ![c] = TRUE]
                /\ evalScript(c, {}, "handleExport", "ExportButton_getSelectedSequences",
                              0, NoCtx)
        \* the mode this click read from the settings
        /\ log' = [log EXCEPT ![c] = {Entry("premiereDirect", 0, settings.premiereDirect)}]
    /\ UNCHANGED <<unitVars, batch, panelVars, hostVars>>

\* as SelectionTimeout, but with a timer on every call of a batch as well:
\* when it fires the item is given up and the batch goes on, while the
\* call stays with the host
SelectionTimeoutOnEveryCall(c) ==
    IF timer[c]
    THEN /\ timer' = [timer EXCEPT ![c] = FALSE]
         /\ IF ~fired[c]
            THEN /\ fired' = [fired EXCEPT ![c] = TRUE]
                 /\ handleSingleExport(c, {})
                 /\ Logged(c, "selectionTimeout", 0, "timed out")
            ELSE UNCHANGED <<fired, inflight, issued, log>>
         /\ UNCHANGED <<unitVars, nclicks, batch, panelVars, hostVars>>
    ELSE /\ batch[c].state = "running"
         /\ \E call \in inflight : call.click = c /\ call.idx = batch[c].currentIndex
         /\ processNextSequence(c, [batch[c] EXCEPT !.errorCount = @ + 1,
                                                    !.currentIndex = @ + 1], {})
         /\ UNCHANGED <<unitVars, nclicks, fired, timer, log, panelVars, hostVars>>

\* the setTimeout callback of handleExport, 3 s after the click
SelectionTimeout(c) ==
    /\ timer[c]
    /\ timer' = [timer EXCEPT ![c] = FALSE]
    /\ IF ~fired[c]
       THEN /\ fired' = [fired EXCEPT ![c] = TRUE]
            /\ handleSingleExport(c, {})
            /\ Logged(c, "selectionTimeout", 0, "timed out")
       ELSE UNCHANGED <<fired, inflight, issued, log>>
    /\ UNCHANGED <<unitVars, nclicks, batch, panelVars, hostVars>>

\* what the selection query answers: sequences, none, no selection API
\* (or one that throws), success false, or a text that does not parse
SelectionOutcome(env, selectedItems) ==
    LET selectionInfo == ExportButton_getSelectedSequences(env, selectedItems)
    IN  IF ~Parsable(env, "ExportButton_getSelectedSequences") THEN "unparsable"
        ELSE IF ~selectionInfo.success THEN "failed"
        ELSE IF selectionInfo.count > 0 THEN "selected"
        ELSE IF ~env.selectionApi \/ env.selectionThrows THEN "unavailable"
        ELSE "empty"

\* as LateCallback, but never taking the callback for late
LateCallbackUnchecked(c) == FALSE

\* if (selectionCallbackFired): the timeout already fell back
LateCallback(c) == fired[c]

\* as BatchSelected, but without the test of count
BatchSelectedAnyCount(selectionInfo) == selectionInfo.success

\* if (selectionInfo.success && selectionInfo.count > 0)
BatchSelected(selectionInfo) == selectionInfo.success /\ selectionInfo.count > 0

\* as OnSelectedSequences, but neither clearing the timer nor setting
\* selectionCallbackFired
OnSelectedSequencesUnguarded(call, env) ==
    /\ call.fn = "ExportButton_getSelectedSequences"
    /\ LET c == call.click IN
        /\ IF LateCallback(c)
           THEN /\ Return({call})
                /\ UNCHANGED batch
           ELSE IF Parsable(env, call.fn)
                THEN LET selectionInfo == ExportButton_getSelectedSequences(env, selection)
                     IN  IF BatchSelected(selectionInfo)
                         THEN handleBatchExport(c, selectionInfo.sequences, {call})
                         ELSE /\ handleSingleExport(c, {call})
                              /\ UNCHANGED batch
                ELSE /\ handleSingleExport(c, {call})
                     /\ UNCHANGED batch
        /\ Logged(c, call.fn, 0, SelectionOutcome(env, selection))
    /\ UNCHANGED <<unitVars, nclicks, fired, timer, panelVars, hostVars>>

\* the callback of ExportButton_getSelectedSequences()
OnSelectedSequences(call, env) ==
    /\ call.fn = "ExportButton_getSelectedSequences"
    /\ LET c == call.click IN
        /\ timer' = [timer EXCEPT ![c] = FALSE]
        /\ IF LateCallback(c)
           THEN /\ Return({call})
                /\ UNCHANGED <<fired, batch>>
           ELSE /\ fired' = [fired EXCEPT ![c] = TRUE]
                /\ IF Parsable(env, call.fn)
                   THEN LET selectionInfo == ExportButton_getSelectedSequences(env, selection)
                        IN  IF BatchSelected(selectionInfo)
                            THEN handleBatchExport(c, selectionInfo.sequences, {call})
                            ELSE /\ handleSingleExport(c, {call})
                                 /\ UNCHANGED batch
                   ELSE /\ handleSingleExport(c, {call})
                        /\ UNCHANGED batch
        /\ Logged(c, call.fn, 0, SelectionOutcome(env, selection))
    /\ UNCHANGED <<unitVars, nclicks, panelVars, hostVars>>

\* queueSequenceExport of processNextSequence
queueSequenceExport(c, done, seqName, folderPath, presetPath, hasVideo) ==
    evalScript(c, done, "queueSequenceExport",
               "ExportButton_getNextVersionedFilenameWithPattern", batch[c].currentIndex,
               [seqName |-> seqName, folderPath |-> folderPath, presetPath |-> presetPath,
                hasVideo |-> hasVideo, cleanName |-> CleanName(seqName),
                extension |-> IF hasVideo THEN "mp4" ELSE "wav",
                namingPattern |-> OrElse(settings.suffixPattern, PatDefault)])

\* the callback of ExportButton_hasVideoForSequence(name)
OnHasVideoForSequence(call, env) ==
    /\ call.fn = "ExportButton_hasVideoForSequence"
    /\ LET c == call.click IN
        IF Parsable(env, call.fn)
        THEN LET videoInfo  == ExportButton_hasVideoForSequence(env, call.ctx.seqName)
                 hasVideo   == videoInfo.hasVideo
                 ctx        == [seqName |-> call.ctx.seqName, hasVideo |-> hasVideo,
                                presetPath |-> PresetFor(hasVideo)]
             IN  /\ IF batch[c].downloadEnabled
                    THEN evalScript(c, {call}, "processNextSequence", "getSystemInfo",
                                    call.idx, ctx)
                    ELSE evalScript(c, {call}, "processNextSequence",
                                    "ExportButton_getProjectExportsPath", call.idx, ctx)
                 /\ UNCHANGED batch
        ELSE ItemFailed(c, {call})
    /\ Logged(call.click, call.fn, call.idx,
              Outcome(Parsable(env, call.fn),
                      ExportButton_hasVideoForSequence(env, call.ctx.seqName).success))
    /\ UNCHANGED <<unitVars, nclicks, fired, timer, panelVars, hostVars>>

\* the callback of getSystemInfo() in a batch (download mode)
OnBatchSystemInfo(call, env) ==
    /\ call.fn = "getSystemInfo"
    /\ call.owner = "processNextSequence"
    /\ LET c == call.click IN
        IF Parsable(env, call.fn)
        THEN LET sysInfo == ExportButton_getSystemInfo(env) IN
             IF sysInfo.downloadsPath = ""
             THEN ItemFailed(c, {call})   \* undefined.replace throws, and is caught
             ELSE /\ queueSequenceExport(c, {call}, call.ctx.seqName, sysInfo.downloadsPath,
                                         call.ctx.presetPath, call.ctx.hasVideo)
                  /\ UNCHANGED batch
        ELSE ItemFailed(c, {call})
    /\ Logged(call.click, call.fn, call.idx,
              Outcome(Parsable(env, call.fn),
                      ExportButton_getSystemInfo(env).downloadsPath # ""))
    /\ UNCHANGED <<unitVars, nclicks, fired, timer, panelVars, hostVars>>

\* the callback of ExportButton_getProjectExportsPath() in a batch
OnProjectExportsPath(call, env) ==
    /\ call.fn = "ExportButton_getProjectExportsPath"
    /\ LET c == call.click IN
        IF Parsable(env, call.fn)
        THEN LET pathInfo == ExportButton_getProjectExportsPath(env) IN
             IF pathInfo.success
             THEN /\ queueSequenceExport(c, {call}, call.ctx.seqName, pathInfo.path,
                                         call.ctx.presetPath, call.ctx.hasVideo)
                  /\ UNCHANGED batch
             ELSE ItemFailed(c, {call})
        ELSE ItemFailed(c, {call})
    \* the host creates the folder when it is missing
    /\ fs' = IF Parsable(env, call.fn) /\ ExportButton_getProjectExportsPath(env).success
             THEN [fs EXCEPT ![ExportsDir].exists = TRUE] ELSE fs
    /\ Logged(call.click, call.fn, call.idx,
              Outcome(Parsable(env, call.fn), ExportButton_getProjectExportsPath(env).success))
    /\ UNCHANGED <<unitVars, nclicks, fired, timer, panelVars, selection, activeSequence,
                   ameQueue, ameStarted, starts>>

\* folderPath + sep + fileName; ext is what executeExport appends
OutputPath(folderPath, fileName, ext) == [folder |-> folderPath, name |-> fileName, ext |-> ext]

\* the callback of ExportButton_getNextVersionedFilenameWithPattern in a batch
OnBatchVersion(call, env) ==
    /\ call.fn = "ExportButton_getNextVersionedFilenameWithPattern"
    /\ call.owner = "queueSequenceExport"
    /\ LET c == call.click
           x == call.ctx
       IN  IF Parsable(env, call.fn)
           THEN LET verInfo == ExportButton_getNextVersionedFilenameWithPattern(
                                   env, FolderAt(x.folderPath), x.cleanName,
                                   x.extension, x.namingPattern)
                    version  == IF verInfo.success THEN verInfo.version ELSE 1
                    fileName == parseSuffixPattern(x.namingPattern, version, x.cleanName, clock)
                IN  /\ evalScript(c, {call}, "queueSequenceExport",
                                  "ExportButton_exportSequenceByName", call.idx,
                                  [seqName |-> x.seqName, presetPath |-> x.presetPath,
                                   outputPath |-> OutputPath(x.folderPath, fileName, "")])
                    /\ UNCHANGED batch
           ELSE ItemFailed(c, {call})
    /\ Logged(call.click, call.fn, call.idx,
              Outcome(Parsable(env, call.fn),
                      ExportButton_getNextVersionedFilenameWithPattern(
                          env, FolderAt(call.ctx.folderPath), call.ctx.cleanName,
                          call.ctx.extension, call.ctx.namingPattern).success))
    /\ UNCHANGED <<unitVars, nclicks, fired, timer, panelVars, hostVars>>

\* what a host call does to the encoder queue: res is the host function's
\* result, by the script that ran
Encoder(c, fn, idx, res, outputPath, presetPath) ==
    LET queue == IF res.queued
                 THEN Append(ameQueue, Job(c, idx, res.seq, outputPath, presetPath, res.range))
                 ELSE ameQueue
    IN  /\ ameQueue' = queue
        /\ ameStarted' = IF res.start THEN Len(queue) ELSE ameStarted
        /\ starts' = IF res.start THEN Append(starts, [click |-> c, fn |-> fn]) ELSE starts

\* ExportButton_exportSequenceByName runs in the host, then its callback
OnExportSequenceByName(call, env) ==
    /\ call.fn = "ExportButton_exportSequenceByName"
    /\ LET c == call.click
           x == call.ctx
       IN  IF Parsable(env, call.fn)
           THEN LET expInfo == ExportButton_exportSequenceByName(env, x.seqName,
                                   x.outputPath, x.presetPath)
                IN  /\ Encoder(c, call.fn, call.idx, expInfo, x.outputPath, x.presetPath)
                    /\ IF expInfo.success THEN ItemQueued(c, {call})
                       ELSE ItemFailed(c, {call})
           ELSE /\ ItemFailed(c, {call})
                /\ UNCHANGED <<ameQueue, ameStarted, starts>>
    /\ Logged(call.click, call.fn, call.idx,
              Outcome(Parsable(env, call.fn),
                      ExportButton_exportSequenceByName(env, call.ctx.seqName,
                          call.ctx.outputPath, call.ctx.presetPath).success))
    /\ UNCHANGED <<unitVars, nclicks, fired, timer, panelVars, selection, activeSequence, fs>>

\* ExportButton_startAMEBatch runs in the host, then its callback, which
\* reports 'Batch started: successCount/totalCount' whatever the result
\* as OnStartAMEBatch, but counting a start that failed as an error
OnStartAMEBatchInspecting(call, env) ==
    /\ call.fn = "ExportButton_startAMEBatch"
    /\ LET c == call.click
           ok == Parsable(env, call.fn) /\ ExportButton_startAMEBatch(env).success
       IN
        /\ ameStarted' = IF ok THEN Len(ameQueue) ELSE ameStarted
        /\ starts' = IF ok THEN Append(starts, [click |-> c, fn |-> call.fn]) ELSE starts
        /\ batch' = [batch EXCEPT ![c].state = "done",
                                  ![c].errorCount = IF ok THEN @ ELSE @ + 1]
        /\ Return({call})
    /\ Logged(call.click, call.fn, call.idx,
              Outcome(Parsable(env, call.fn), ExportButton_startAMEBatch(env).success))
    /\ UNCHANGED <<unitVars, nclicks, fired, timer, panelVars, selection, activeSequence, fs,
                   ameQueue>>

OnStartAMEBatch(call, env) ==
    /\ call.fn = "ExportButton_startAMEBatch"
    /\ LET c == call.click IN
        /\ IF Parsable(env, call.fn)
           THEN LET res == ExportButton_startAMEBatch(env) IN
                /\ ameStarted' = IF res.start THEN Len(ameQueue) ELSE ameStarted
                /\ starts' = IF res.start THEN Append(starts, [click |-> c, fn |-> call.fn])
                             ELSE starts
           ELSE UNCHANGED <<ameStarted, starts>>
        /\ batch' = [batch EXCEPT ![c].state = "done"]
        /\ Return({call})
    /\ Logged(call.click, call.fn, call.idx,
              Outcome(Parsable(env, call.fn), ExportButton_startAMEBatch(env).success))
    /\ UNCHANGED <<unitVars, nclicks, fired, timer, panelVars, selection, activeSequence, fs,
                   ameQueue>>

\* presetPath.split(/[/\\]/).pop().toLowerCase()
PresetName(presetPath) ==
    LET seps == {i \in 1..Len(presetPath) : presetPath[i] \in {"/", "\\"}}
        last == IF seps = {} THEN 0 ELSE CHOOSE i \in seps : \A j \in seps : j <= i
    IN  ToLower(Substring(presetPath, last))

\* as getExtensionFromPreset, but by the fallback alone
getExtensionFromPresetByVideo(presetPath, hasVideo) ==
    IF hasVideo THEN ".mp4" ELSE ".wav"

\* the extension of a direct export, from the words of the preset's name
getExtensionFromPreset(presetPath, hasVideo) ==
    LET presetName == PresetName(presetPath)
        Has(words) == \E w \in words : Contains(presetName, w)
    IN  IF Has({<<"h", ".", "2", "6", "4">>, <<"h", "2", "6", "4">>, <<"h", "e", "v", "c">>,
                <<"h", ".", "2", "6", "5">>, <<"y", "o", "u", "t", "u", "b", "e">>,
                <<"v", "i", "m", "e", "o">>, <<"f", "a", "c", "e", "b", "o", "o", "k">>,
                <<"t", "w", "i", "t", "t", "e", "r">>})
        THEN ".mp4"
        ELSE IF Has({<<"p", "r", "o", "r", "e", "s">>,
                     <<"q", "u", "i", "c", "k", "t", "i", "m", "e">>,
                     <<"a", "p", "p", "l", "e">>, <<".", "m", "o", "v">>})
        THEN ".mov"
        ELSE IF Has({<<"d", "n", "x", "h", "d">>, <<"d", "n", "x", "h", "r">>,
                     <<"m", "x", "f">>})
        THEN ".mxf"
        ELSE IF Has({<<"a", "v", "i">>})
        THEN ".avi"
        ELSE IF Has({<<"w", "e", "b", "m">>, <<"v", "p", "9">>, <<"v", "p", "8">>})
        THEN ".webm"
        ELSE IF Has({<<"w", "a", "v">>, <<"w", "a", "v", "e">>})
        THEN ".wav"
        ELSE IF Has({<<"a", "i", "f", "f">>})
        THEN ".aiff"
        ELSE IF Has({<<"m", "p", "3">>})
        THEN ".mp3"
        ELSE IF Has({<<"a", "a", "c">>})
        THEN ".aac"
        ELSE IF hasVideo THEN ".mp4" ELSE ".wav"

\* the callback of ExportButton_getActiveSequence()
\* as OnActiveSequence, but going on to the video check whatever the reply
OnActiveSequenceIgnoringFailure(call, env) ==
    /\ call.fn = "ExportButton_getActiveSequence"
    /\ evalScript(call.click, {call}, "checkVideoAndExport", "ExportButton_hasVideoTracks",
                  0, [sequenceName |-> ExportButton_getActiveSequence(env, activeSequence).name])
    /\ UNCHANGED <<unitVars, clickVars, panelVars, hostVars, log>>

OnActiveSequence(call, env) ==
    /\ call.fn = "ExportButton_getActiveSequence"
    /\ LET c == call.click IN
        IF Parsable(env, call.fn)
        THEN LET seqInfo == ExportButton_getActiveSequence(env, activeSequence) IN
             IF seqInfo.success
             THEN \* checkVideoAndExport(seqInfo.name)
                  evalScript(c, {call}, "checkVideoAndExport", "ExportButton_hasVideoTracks",
                             0, [sequenceName |-> seqInfo.name])
             ELSE Return({call})
        ELSE Return({call})
    /\ UNCHANGED <<unitVars, clickVars, panelVars, hostVars, log>>

getVersionedFilenameAndExport(c, done, folderPath, baseName, presetPath, hasVideo) ==
    evalScript(c, done, "getVersionedFilenameAndExport",
               "ExportButton_getNextVersionedFilenameWithPattern", 0,
               [folderPath |-> folderPath, baseName |-> baseName, presetPath |-> presetPath,
                hasVideo |-> hasVideo, extension |-> IF hasVideo THEN "mp4" ELSE "wav",
                namingPattern |-> OrElse(settings.suffixPattern, PatDefault)])

determineOutputPath(c, done, sequenceName, presetPath, hasVideo) ==
    LET cleanName == CleanName(sequenceName)
        ctx == [cleanName |-> cleanName, presetPath |-> presetPath, hasVideo |-> hasVideo]
    IN  IF downloadChecked
        THEN IF settings.fixedFolder # ""
             THEN getVersionedFilenameAndExport(c, done, settings.fixedFolder, cleanName,
                                                presetPath, hasVideo)
             ELSE evalScript(c, done, "determineOutputPath", "ExportButton_getSystemInfo",
                             0, ctx)
        ELSE evalScript(c, done, "determineOutputPath",
                        "ExportButton_getProjectExportsPathWithDepth", 0,
                        ctx @@
                        [folderName |-> IF settings.exportFolder = "" THEN "EXPORTS"
                                        ELSE settings.exportFolder,
                         depth |-> IF settings.folderDepth \in {"", "0"} THEN 0 ELSE 1])

\* the callback of ExportButton_hasVideoTracks()
OnHasVideoTracks(call, env) ==
    /\ call.fn = "ExportButton_hasVideoTracks"
    /\ LET c == call.click IN
        IF Parsable(env, call.fn)
        THEN LET videoInfo  == ExportButton_hasVideoTracks(env, activeSequence)
                 hasVideo   == videoInfo.hasVideo
                 presetPath == PresetFor(hasVideo)
             IN  IF presetPath = <<>>
                 THEN Return({call})   \* 'No preset configured'
                 ELSE determineOutputPath(c, {call}, call.ctx.sequenceName, presetPath, hasVideo)
        ELSE Return({call})
    /\ UNCHANGED <<unitVars, clickVars, panelVars, hostVars, log>>

\* the callback of ExportButton_getSystemInfo() in determineOutputPath
OnSystemInfo(call, env) ==
    /\ call.fn = "ExportButton_getSystemInfo"
    /\ call.owner = "determineOutputPath"
    /\ LET c == call.click
           x == call.ctx
       IN  IF Parsable(env, call.fn) /\ ExportButton_getSystemInfo(env).downloadsPath # ""
           THEN getVersionedFilenameAndExport(c, {call},
                    ExportButton_getSystemInfo(env).downloadsPath,
                    x.cleanName, x.presetPath, x.hasVideo)
           ELSE Return({call})   \* 'Error getting downloads path'
    /\ UNCHANGED <<unitVars, clickVars, panelVars, hostVars, log>>

\* the callback of ExportButton_getProjectExportsPathWithDepth(name, depth)
OnExportsPathWithDepth(call, env) ==
    /\ call.fn = "ExportButton_getProjectExportsPathWithDepth"
    /\ LET c == call.click
           x == call.ctx
           pathInfo == ExportButton_getProjectExportsPathWithDepth(env, x.folderName, x.depth)
           found == Parsable(env, call.fn) /\ pathInfo.success
       IN  /\ IF found
              THEN getVersionedFilenameAndExport(c, {call}, pathInfo.path, x.cleanName,
                                                 x.presetPath, x.hasVideo)
              ELSE Return({call})
           \* the host creates the folder when it is missing
           /\ fs' = IF found /\ pathInfo.path \in DOMAIN fs
                    THEN [fs EXCEPT ![pathInfo.path].exists = TRUE] ELSE fs
    /\ UNCHANGED <<unitVars, clickVars, panelVars, log, selection, activeSequence, ameQueue,
                   ameStarted, starts>>

\* executeExport: the mode and the range are read from the settings now
\* as executeExport, but appending the extension in both modes
executeExportAlwaysAppending(c, done, outputPath, presetPath, hasVideo) ==
    evalScript(c, done, "executeExport",
               IF settings.premiereDirect = "true" THEN "ExportButton_exportDirectInPremiere"
               ELSE "ExportButton_exportToAMEWithOptions", 0,
               [outputPath |-> [outputPath EXCEPT
                                   !.ext = getExtensionFromPreset(presetPath, hasVideo)],
                presetPath |-> presetPath,
                useInOut |-> settings.inoutExport = "true"])

executeExport(c, done, outputPath, presetPath, hasVideo) ==
    LET useInOut       == settings.inoutExport = "true"
        premiereDirect == settings.premiereDirect = "true"
        finalOutputPath ==
            IF premiereDirect
            THEN [outputPath EXCEPT !.ext = getExtensionFromPreset(presetPath, hasVideo)]
            ELSE outputPath
    IN  evalScript(c, done, "executeExport",
                   IF premiereDirect THEN "ExportButton_exportDirectInPremiere"
                   ELSE "ExportButton_exportToAMEWithOptions", 0,
                   [outputPath |-> finalOutputPath, presetPath |-> presetPath,
                    useInOut |-> useInOut])

\* the callback of ExportButton_getNextVersionedFilenameWithPattern in the
\* single path
OnVersion(call, env) ==
    /\ call.fn = "ExportButton_getNextVersionedFilenameWithPattern"
    /\ call.owner = "getVersionedFilenameAndExport"
    /\ LET c == call.click
           x == call.ctx
           info == ExportButton_getNextVersionedFilenameWithPattern(
                       env, FolderAt(x.folderPath), x.baseName, x.extension,
                       x.namingPattern)
           fileName ==
               IF Parsable(env, call.fn)
               THEN parseSuffixPattern(x.namingPattern,
                                       IF info.success THEN info.version ELSE 1,
                                       x.baseName, clock)
               ELSE parseSuffixPattern(<<"{", "S", "E", "Q", "}", "_", "V", "1">>, 1,
                                       x.baseName, clock)
       IN  /\ executeExport(c, {call}, OutputPath(x.folderPath, fileName, ""),
                             x.presetPath, x.hasVideo)
           /\ Logged(c, call.fn, call.idx, Outcome(Parsable(env, call.fn), info.success))
    /\ UNCHANGED <<unitVars, clickVars, panelVars, hostVars>>

\* ExportButton_exportToAMEWithOptions or ExportButton_exportDirectInPremiere
\* runs in the host, then the callback sets the status line
OnExport(call, env) ==
    /\ call.owner = "executeExport"
    /\ LET c == call.click
           x == call.ctx
           res == IF call.fn = "ExportButton_exportDirectInPremiere"
                  THEN ExportButton_exportDirectInPremiere(env, activeSequence,
                           x.outputPath, x.presetPath, x.useInOut)
                  ELSE ExportButton_exportToAMEWithOptions(env, activeSequence,
                           x.outputPath, x.presetPath, x.useInOut)
       IN  /\ IF Parsable(env, call.fn)
              THEN Encoder(c, call.fn, call.idx, res, x.outputPath, x.presetPath)
              ELSE UNCHANGED <<ameQueue, ameStarted, starts>>
           /\ Return({call})
    /\ UNCHANGED <<unitVars, clickVars, panelVars, log, selection, activeSequence, fs>>

(***************************************************************************)
(* The settings UI, the start-up query and the clock.                      *)
(***************************************************************************)

\* the Save button of the settings dialog
SaveSettings(form) ==
    /\ settings' = setItems(settings, saveSettings(form))
    /\ UNCHANGED <<unitVars, downloadChecked, defaultPresets, clock, clickVars, inflight,
                   issued, log,
                   hostVars>>

\* the change handler of the download checkbox
ToggleDownload ==
    /\ downloadChecked' = ~downloadChecked
    /\ settings' = setItems(settings, [downloadEnabled |-> BoolStr(~downloadChecked)])
    /\ UNCHANGED <<unitVars, defaultPresets, clock, clickVars, inflight, issued, log,
                   hostVars>>

\* the callback of the start-up ExportButton_getSystemInfo(): the built-in
\* preset paths of the platform
getSystemInfo ==
    /\ defaultPresets.video = <<>>
    /\ defaultPresets' = [video |-> DefaultVideoPreset, audio |-> DefaultAudioPreset]
    /\ UNCHANGED <<unitVars, settings, downloadChecked, clock, clickVars, inflight, issued,
                   log, hostVars>>

\* a minute passes
Tick ==
    /\ clock = Clock1
    /\ clock' = Clock2
    /\ UNCHANGED <<unitVars, settings, downloadChecked, defaultPresets, clickVars, inflight,
                   issued, log,
                   hostVars>>

\* the callbacks of the evalScript calls in flight
Callbacks ==
    \/ \E call \in inflight, env \in SelectionEnvs : OnSelectedSequences(call, env)
    \/ \E call \in inflight, env \in CallEnvs : OnHasVideoForSequence(call, env)
    \/ \E call \in inflight, env \in CallEnvs : OnBatchSystemInfo(call, env)
    \/ \E call \in inflight, env \in QueryEnvs : OnProjectExportsPath(call, env)
    \/ \E call \in inflight, env \in VersionEnvs : OnBatchVersion(call, env)
    \/ \E call \in inflight, env \in EncodeEnvs : OnExportSequenceByName(call, env)
    \/ \E call \in inflight, env \in StartEnvs : OnStartAMEBatch(call, env)
    \/ \E call \in inflight, env \in QueryEnvs : OnActiveSequence(call, env)
    \/ \E call \in inflight, env \in CallEnvs : OnHasVideoTracks(call, env)
    \/ \E call \in inflight, env \in CallEnvs : OnSystemInfo(call, env)
    \/ \E call \in inflight, env \in QueryEnvs : OnExportsPathWithDepth(call, env)
    \/ \E call \in inflight, env \in VersionEnvs : OnVersion(call, env)
    \/ \E call \in inflight, env \in EncodeEnvs : OnExport(call, env)

\* one click of the export button, followed through its last callback
Next ==
    \/ (nclicks = 0 /\ handleExport)
    \/ \E c \in Clicks : SelectionTimeout(c)
    \/ Callbacks

Spec == Init /\ [][Next]_vars

\* The In/Out setting was saved before the click; the folders are empty.
InitInOut ==
    /\ Start
    /\ NoUnitCall
    /\ settings \in WithDownload({SavedStore(FormInOut)})
    /\ downloadChecked = loadSettings(settings)
    /\ selection \in Selections
    /\ activeSequence \in IF selection = <<>> THEN {0, 1, 4} ELSE {4}
    /\ fs = [d \in {ExportsDir, DownloadsDir, FixedDir} |-> Folder({})]

SpecInOut == InitInOut /\ [][Next]_vars

\* A fresh installation with empty folders, where every evalScript call of a
\* batch gets its callback in the end.
InitFair ==
    /\ Start
    /\ NoUnitCall
    /\ settings \in WithDownload({FreshSettings})
    /\ downloadChecked = loadSettings(settings)
    /\ selection \in Selections
    /\ activeSequence = 1
    /\ fs = [d \in {ExportsDir, DownloadsDir, FixedDir} |-> Folder({})]

\* every call a batch sends gets its callback in the end
BatchFairness ==
    /\ WF_vars(\E call \in inflight, env \in CallEnvs : OnHasVideoForSequence(call, env))
    /\ WF_vars(\E call \in inflight, env \in CallEnvs : OnBatchSystemInfo(call, env))
    /\ WF_vars(\E call \in inflight, env \in QueryEnvs : OnProjectExportsPath(call, env))
    /\ WF_vars(\E call \in inflight, env \in VersionEnvs : OnBatchVersion(call, env))
    /\ WF_vars(\E call \in inflight, env \in EncodeEnvs : OnExportSequenceByName(call, env))
    /\ WF_vars(\E call \in inflight, env \in StartEnvs : OnStartAMEBatch(call, env))

SpecFair == InitFair /\ [][Next]_vars /\ BatchFairness

\* The button stays enabled while a click is being served: clicks made
\* before the callbacks of the earlier ones have run.  One sequence is
\* selected in a fresh installation with empty folders.
InitReentrant ==
    /\ Start
    /\ NoUnitCall
    /\ settings \in WithDownload({FreshSettings})
    /\ downloadChecked = loadSettings(settings)
    /\ selection = SubSeq(ProjectItems, 1, 1)
    /\ activeSequence = 1
    /\ fs = [d \in {ExportsDir, DownloadsDir, FixedDir} |-> Folder({})]

NextReentrant ==
    \/ handleExport
    \/ \E c \in Clicks : SelectionTimeout(c)
    \/ Callbacks

SpecReentrant == InitReentrant /\ [][NextReentrant]_vars

(***************************************************************************)
(* The functions called on their own.  args holds the call, drawn from     *)
(* the inputs below; ret collects what the successive calls returned.      *)
(***************************************************************************)

\* files in one folder
MaxFiles == 4

\* calls of one function in one behaviour
MaxCalls == 2

Dir(name) == [name |-> name, isFile |-> FALSE]

\* names an export folder can hold: exports of Base at several versions,
\* one written with a two-letter version token, one in another letter case,
\* the export of another sequence, a name whose only dot follows the base
\* name at once, a name without version marker, and a sub-folder; an audio
\* export, a version 0 and a marker without digits
FolderEntries ==
    { File(<<"B", "a", "s", "e", "_", "V", "1", ".", "m", "p", "4">>),
      File(<<"B", "a", "s", "e", "_", "V", "2", ".", "m", "p", "4">>),
      File(<<"B", "a", "s", "e", "_", "V", "1", "0", ".", "m", "p", "4">>),
      File(<<"B", "a", "s", "e", "_", "V", "0", "8", ".", "m", "p", "4">>),
      File(<<"b", "a", "s", "e", "_", "v", "3", ".", "M", "P", "4">>),
      File(<<"O", "t", "h", "e", "r", "_", "V", "9", "9", ".", "m", "p", "4">>),
      File(<<"B", "a", "s", "e", ".", "x", "_", "V", "7">>),
      File(<<"B", "a", "s", "e", "_", "5", ".", "m", "p", "4">>),
      File(<<"B", "a", "s", "e", "_", "V", "5", ".", "w", "a", "v">>),
      File(<<"B", "a", "s", "e", "_", "V", "0", ".", "m", "p", "4">>),
      File(<<"B", "a", "s", "e", "_", "V", ".", "m", "p", "4">>),
      Dir(<<"B", "a", "s", "e", "_", "V", "5", "0">>) }

Folders ==
    {[exists |-> FALSE, entries |-> {}]} \cup
    {Folder(S) : S \in {T \in SUBSET FolderEntries : Cardinality(T) <= MaxFiles}}

BaseNames == {<<"B", "a", "s", "e">>, <<"b", "a", "s", "e">>}

ResolverEnvs == [throws : BOOLEAN, octal : BOOLEAN]

ResolverCalls ==
    [fn : {"ExportButton_getNextVersionedFilenameWithPattern"}, env : ResolverEnvs,
     folder : Folders, baseName : BaseNames, extension : {"mp4", "wav"},
     suffixPattern : {PatDefault, PatNoMark}]

\* pieces in one naming pattern
MaxPieces == 2

\* a piece of a naming pattern: a version token, one of the three other
\* tokens, or text that is no token (kind lit)
Piece(kind, text) == [kind |-> kind, text |-> text]

PatternPieces ==
    { Piece("ver", <<"{", "V", "}">>), Piece("ver", <<"{", "V", "V", "}">>),
      Piece("ver", <<"{", "V", "V", "V", "}">>), Piece("ver", <<"{", "v", "}">>),
      Piece("seq", <<"{", "S", "E", "Q", "}">>), Piece("seq", <<"{", "s", "e", "q", "}">>),
      Piece("date", <<"{", "D", "a", "t", "e", "}">>),
      Piece("time", <<"{", "t", "I", "M", "E", "}">>),
      Piece("lit", <<"_", "V">>), Piece("lit", <<"{", "X", "}">>),
      Piece("lit", <<"{", "V", "X", "}">>), Piece("lit", <<"{", "}">>) }

\* the patterns of at most n pieces, and the default pattern written with
\* a version token of two and of three letters
PiecesUpTo(n) ==
    UNION {[1..k -> PatternPieces] : k \in 0..n}
    \cup {<<Piece("seq", <<"{", "S", "E", "Q", "}">>), Piece("lit", <<"_", "V">>), Piece("ver", v)>> :
             v \in {<<"{", "V", "V", "}">>, <<"{", "V", "V", "V", "}">>}}

\* the pattern string the pieces spell
RECURSIVE Flatten(_)
Flatten(pieces) == IF pieces = <<>> THEN <<>> ELSE Head(pieces).text \o Flatten(Tail(pieces))

\* a version and a sequence name: plain names, names that hold token text,
\* and names that hold a dollar sign followed by an ampersand or a dollar sign
Renderings ==
    { [version |-> 3, sequenceName |-> <<"E", "d", "i", "t">>],
      [version |-> 100, sequenceName |-> <<"X">>],
      [version |-> 100, sequenceName |-> <<"{", "V", "}">>],
      [version |-> 3, sequenceName |-> <<"{", "D", "A", "T", "E", "}">>],
      [version |-> 3, sequenceName |-> <<"$", "&">>],
      [version |-> 100, sequenceName |-> <<"$", "$">>] }

PatternCalls(n) ==
    {[fn |-> "parseSuffixPattern", pieces |-> ps, pattern |-> Flatten(ps),
      version |-> r.version, sequenceName |-> r.sequenceName] :
        ps \in PiecesUpTo(n), r \in Renderings}

\* preset paths: a folder and the name of a preset file in it, named after
\* a format, after two formats, or after none
PresetFolders == {<<"/", "s", "/">>, <<"/", "P", "r", "o", "R", "e", "s", "/">>,
                  <<"/", "Y", "o", "u", "T", "u", "b", "e", "/">>,
                  <<"C", ":", "\\", "p", "\\">>}

PresetFiles == {<<"P", "r", "o", "R", "e", "s">>, <<"Y", "o", "u", "T", "u", "b", "e">>,
                <<"C", "u", "s", "t", "o", "m">>,
                <<"P", "r", "o", "R", "e", "s", " ", "H", "E", "V", "C">>,
                <<"W", "A", "V">>}

PresetPaths == {folder \o file : folder \in PresetFolders, file \in PresetFiles}

\* executeExport called with a path, a preset and the video flag
ExportCalls ==
    [fn : {"executeExport"},
     outputPath : {OutputPath(ExportsDir, <<"A", "_", "V", "1">>, "")},
     presetPath : PresetPaths, hasVideo : BOOLEAN]

\* the two video checks: of the active sequence, whatever it is, and of a
\* sequence by its name, a name no sequence bears included
HasVideoCalls ==
    [fn : {"ExportButton_hasVideoTracks"}, env : [throws : BOOLEAN]]
    \cup [fn : {"ExportButton_hasVideoForSequence"}, env : [throws : BOOLEAN],
          sequenceName : {ProjectSequences[i].name : i \in 1..Len(ProjectSequences)}
                         \cup {<<"Z">>}]

\* exports of one sequence made one after the other
MaxExports == 11

\* the export of a sequence into the project's export folder, repeated:
\* plain names, names that sanitizing changes, that hold a dot or a version
\* marker, and that hold a dollar sign before an ampersand or a dollar sign
RepeatCalls ==
    [fn : {"getVersionedFilenameAndExport"}, folderPath : {ExportsDir},
     sequenceName : {NameA, NameAcB, <<"A", ".", "B">>, <<"A", "_", "V", "7">>,
                     <<"$", "&">>, <<"$", "$">>},
     hasVideo : BOOLEAN]

UnitCalls ==
    ResolverCalls \cup PatternCalls(MaxPieces) \cup ExportCalls \cup HasVideoCalls
    \cup RepeatCalls

\* everything outside the call is as the panel leaves it after start-up
InitUnit ==
    /\ Start
    /\ args \in UnitCalls
    /\ settings \in IF args.fn = "executeExport"
                     THEN {FreshSettings} \cup {SavedStore(f) : f \in SettingsForms}
                     ELSE {FreshSettings}
    /\ downloadChecked = FALSE
    /\ selection = <<>>
    /\ activeSequence \in IF args.fn = "ExportButton_hasVideoTracks"
                           THEN 0..Len(ProjectSequences) ELSE {0}
    /\ fs = [d \in {ExportsDir, DownloadsDir, FixedDir} |-> Folder({})]
    /\ ret = <<>>

\* the host evaluates the resolver call
CallResolver ==
    /\ args.fn = "ExportButton_getNextVersionedFilenameWithPattern"
    /\ ret = <<>>
    /\ ret' = <<ExportButton_getNextVersionedFilenameWithPattern(
                    args.env, args.folder, args.baseName, args.extension,
                    args.suffixPattern)>>
    /\ UNCHANGED <<args, panelVars, clickVars, inflight, issued, log, hostVars>>

\* the panel calls parseSuffixPattern, which reads the clock; n: the calls
\* a behaviour makes
CallParseSuffixPattern(n) ==
    /\ args.fn = "parseSuffixPattern"
    /\ Len(ret) < n
    /\ ret' = Append(ret, [now |-> clock,
                           value |-> parseSuffixPattern(args.pattern, args.version,
                                                        args.sequenceName, clock)])
    /\ UNCHANGED <<args, panelVars, clickVars, inflight, issued, log, hostVars>>

\* the panel calls executeExport, which reads the settings and sends the
\* export script to the host
CallExecuteExport ==
    /\ args.fn = "executeExport"
    /\ inflight = {}
    /\ executeExport(1, {}, args.outputPath, args.presetPath, args.hasVideo)
    /\ UNCHANGED <<unitVars, panelVars, clickVars, log, hostVars>>

\* the host evaluates one of the two video checks
CallHasVideo ==
    /\ args.fn \in {"ExportButton_hasVideoTracks", "ExportButton_hasVideoForSequence"}
    /\ ret = <<>>
    /\ ret' = <<IF args.fn = "ExportButton_hasVideoTracks"
                THEN ExportButton_hasVideoTracks(args.env, activeSequence)
                ELSE ExportButton_hasVideoForSequence(args.env, args.sequenceName)>>
    /\ UNCHANGED <<args, panelVars, clickVars, inflight, issued, log, hostVars>>

\* One more export of the sequence, every host call answering without
\* error: the resolver reads the folder, the panel renders the name, and the
\* encoder writes the file, which is in the folder before the next export.
CallExportAgain ==
    /\ args.fn = "getVersionedFilenameAndExport"
    /\ Len(ret) < MaxExports
    /\ \E octal \in BOOLEAN :
           LET baseName      == CleanName(args.sequenceName)
               namingPattern == OrElse(settings.suffixPattern, PatDefault)
               info == ExportButton_getNextVersionedFilenameWithPattern(
                           [throws |-> FALSE, octal |-> octal], FolderAt(args.folderPath),
                           baseName, IF args.hasVideo THEN "mp4" ELSE "wav", namingPattern)
               finalFilename == parseSuffixPattern(namingPattern, info.version, baseName, clock)
               written == finalFilename \o (IF args.hasVideo THEN <<".", "m", "p", "4">>
                                            ELSE <<".", "w", "a", "v">>)
           IN  /\ ret' = Append(ret, finalFilename)
               /\ fs' = [fs EXCEPT ![args.folderPath].entries = @ \cup {File(written)}]
    /\ UNCHANGED <<args, panelVars, clickVars, inflight, issued, log, selection,
                   activeSequence, ameQueue, ameStarted, starts>>

NextUnit ==
    \/ CallResolver
    \/ CallHasVideo
    \/ CallExportAgain
    \/ CallExecuteExport
    \/ CallParseSuffixPattern(1)

SpecUnit == InitUnit /\ [][NextUnit]_vars

\* parseSuffixPattern called again and again on a pattern of at most one
\* piece, while the settings are saved, the checkbox is set and time passes
InitAgain ==
    /\ Start
    /\ settings = FreshSettings
    /\ downloadChecked = FALSE
    /\ selection = <<>>
    /\ activeSequence = 0
    /\ fs = [d \in {ExportsDir, DownloadsDir, FixedDir} |-> Folder({})]
    /\ args \in PatternCalls(1)
    /\ ret = <<>>

NextAgain ==
    \/ CallParseSuffixPattern(MaxCalls)
    \/ \E form \in SettingsForms : SaveSettings(form)
    \/ ToggleDownload
    \/ Tick

SpecAgain == InitAgain /\ [][NextAgain]_vars

\* The settings dialog and the download checkbox stay live while a click is
\* being served.  Two sequences are selected, or none and the
\* first sequence is active; the folders are empty.
InitLive ==
    /\ Start
    /\ NoUnitCall
    /\ settings \in WithDownload({FreshSettings} \cup
                                  {SavedStore(f) : f \in SettingsForms})
    /\ downloadChecked = loadSettings(settings)
    /\ selection \in {<<>>, SubSeq(ProjectItems, 2, 3)}
    /\ activeSequence = IF selection = <<>> THEN 1 ELSE 4
    /\ fs = [d \in {ExportsDir, DownloadsDir, FixedDir} |-> Folder({})]

NextLive ==
    \/ (nclicks = 0 /\ handleExport)
    \/ \E c \in Clicks : SelectionTimeout(c)
    \/ Callbacks
    \/ \E form \in SettingsForms : SaveSettings(form)
    \/ ToggleDownload

SpecLive == InitLive /\ [][NextLive]_vars

\* The export button is clicked in a panel whose start-up query of the
\* system information has not been answered yet, and may never be:
\* defaultPresets is as declared.  The folders are empty.
InitStartup ==
    /\ defaultPresets = [video |-> <<>>, audio |-> <<>>]
    /\ clock = Clock1
    /\ nclicks = 0
    /\ fired = [c \in Clicks |-> FALSE]
    /\ timer = [c \in Clicks |-> FALSE]
    /\ batch = [c \in Clicks |-> NoBatch]
    /\ inflight = {}
    /\ issued = [c \in Clicks |-> <<>>]
    /\ log = [c \in Clicks |-> {}]
    /\ ameQueue = <<>>
    /\ ameStarted = 0
    /\ starts = <<>>
    /\ NoUnitCall
    /\ settings \in WithDownload({FreshSettings})
    /\ downloadChecked = loadSettings(settings)
    /\ selection \in Selections
    /\ activeSequence \in IF selection = <<>> THEN {0, 1, 4} ELSE {4}
    /\ fs = [d \in {ExportsDir, DownloadsDir, FixedDir} |-> Folder({})]

NextStartup ==
    \/ getSystemInfo
    \/ (nclicks = 0 /\ handleExport)
    \/ \E c \in Clicks : SelectionTimeout(c)
    \/ Callbacks

SpecStartup == InitStartup /\ [][NextStartup]_vars

\* the forms that differ in the two flags of the settings dialog only
FlagForms ==
    {[FormDefault EXCEPT !.inoutExport = a, !.premiereDirect = b] : a, b \in BOOLEAN}

\* localStorage.getItem(key) === 'true'
FlagEnabled(store, key) == store[key] = "true"

\* The settings dialog is saved and the download checkbox switched any
\* number of times, from a store that holds no flag or the download flag
\* only; then executeExport reads the flags.
InitSettings ==
    /\ Start
    /\ args \in ExportCalls
    /\ ret = <<>>
    /\ settings \in WithDownload({FreshSettings})
    /\ downloadChecked = loadSettings(settings)
    /\ selection = <<>>
    /\ activeSequence = 1
    /\ fs = [d \in {ExportsDir, DownloadsDir, FixedDir} |-> Folder({})]

NextSettings ==
    \/ \E form \in FlagForms : SaveSettings(form)
    \/ ToggleDownload
    \/ CallExecuteExport

SpecSettings == InitSettings /\ [][NextSettings]_vars

(***************************************************************************)
(* Properties.                                                             *)
(***************************************************************************)

\* positions in the call log of click c of the calls of fn
Issued(c, fn) == {i \in 1..Len(issued[c]) : issued[c][i].fn = fn}

\* the evalScript calls of click c whose callback has not run
InFlight(c) == {call \in inflight : call.click = c}

\* click c started a batch
IsBatch(c) == batch[c].state # "none"

\* positions in the encoder queue of the jobs of click c
Jobs(c) == {i \in 1..Len(ameQueue) : ameQueue[i].click = c}

\* positions in starts of the startBatch() calls made for click c
Starts(c) == {i \in 1..Len(starts) : starts[i].click = c}

\* the replies to the steps of a batch that were not ok
StepFailures(c) ==
    {e \in log[c] : e.fn \notin {"premiereDirect", "selectionTimeout",
                                 "ExportButton_getSelectedSequences"}}

\* the place of a call in the pipeline of an item
StepRank(fn) ==
    CASE fn = "ExportButton_getSelectedSequences" -> 0
      [] fn = "ExportButton_hasVideoForSequence" -> 1
      [] fn \in {"getSystemInfo", "ExportButton_getProjectExportsPath"} -> 2
      [] fn = "ExportButton_getNextVersionedFilenameWithPattern" -> 3
      [] fn = "ExportButton_exportSequenceByName" -> 4
      [] OTHER -> 5

\* C1: in a batch, ExportButton_startAMEBatch is issued exactly once, only
\* after every item was attempted (queued or counted as failed), and no
\* earlier step of the batch starts the encoder queue.
C1_StartOnceAfterAllItems ==
    \A c \in Clicks : IsBatch(c) =>
        LET b == batch[c]
            finished == b.state \in {"finalizing", "done"}
        IN  /\ Cardinality(Issued(c, "ExportButton_startAMEBatch")) = IF finished THEN 1 ELSE 0
            /\ finished =>
                  /\ b.currentIndex = b.totalCount
                  /\ b.successCount + b.errorCount = b.totalCount
                  /\ issued[c][Len(issued[c])].fn = "ExportButton_startAMEBatch"
                  /\ \A k \in 0..(b.totalCount - 1) :
                         [fn |-> "ExportButton_hasVideoForSequence", idx |-> k]
                             \in {issued[c][i] : i \in 1..Len(issued[c])}
            /\ Cardinality(Starts(c)) <= 1
            /\ \A i \in Starts(c) : starts[i].fn = "ExportButton_startAMEBatch"
            /\ b.state = "running" => Starts(c) = {} /\ ameStarted = 0

\* a batch of three items, one of which failed, has queued two jobs and
\* started the queue once, at its end
C1_Witness ==
    \E c \in Clicks :
        /\ batch[c].state = "done"
        /\ batch[c].totalCount = 3
        /\ batch[c].successCount = 2
        /\ Len(ameQueue) = 2
        /\ ameStarted = 2
        /\ starts = <<[click |-> c, fn |-> "ExportButton_startAMEBatch"]>>

\* C2: in a batch at most one remote call is in flight, it belongs to the
\* current item, the calls are issued item after item and within an item in
\* the order video check, path, version, submit, and the jobs reach the
\* encoder queue in the order of the selected list.
C2_OneInFlightInListOrder ==
    \A c \in Clicks : IsBatch(c) =>
        /\ Cardinality(InFlight(c)) <= 1
        /\ \A call \in InFlight(c) : call.idx = batch[c].currentIndex
        /\ \A i, j \in 1..Len(issued[c]) : i < j =>
              \/ issued[c][i].idx < issued[c][j].idx
              \/ /\ issued[c][i].idx = issued[c][j].idx
                 /\ StepRank(issued[c][i].fn) < StepRank(issued[c][j].fn)
        /\ \A i, j \in Jobs(c) : i < j => ameQueue[i].item < ameQueue[j].item
        /\ \A i \in Jobs(c) :
              ProjectSequences[ameQueue[i].seq].name =
                  batch[c].sequences[ameQueue[i].item + 1].name

\* the third item's submit call is in flight after the first two were queued
C2_Witness ==
    \E c \in Clicks :
        /\ batch[c].state = "running"
        /\ batch[c].currentIndex = 2
        /\ \E call \in InFlight(c) : call.fn = "ExportButton_exportSequenceByName"
        /\ Cardinality(Jobs(c)) = 2

\* C3: a failure at a step of item k does not abort the batch: while the
\* batch runs it always has the call of its current item (or the start call)
\* pending, every item up to the current one had its video check issued,
\* and a finished batch has issued the video check of every item and the
\* start call.
C3_FailureDoesNotAbort ==
    \A c \in Clicks : IsBatch(c) =>
        LET b == batch[c]
            checked(k) == [fn |-> "ExportButton_hasVideoForSequence", idx |-> k]
                              \in {issued[c][i] : i \in 1..Len(issued[c])}
        IN  /\ b.state = "running" =>
                  /\ b.currentIndex < b.totalCount
                  /\ \E call \in InFlight(c) : call.idx = b.currentIndex
                  /\ \A k \in 0..b.currentIndex : checked(k)
            /\ b.state = "finalizing" =>
                  \E call \in InFlight(c) : call.fn = "ExportButton_startAMEBatch"
            /\ b.state \in {"finalizing", "done"} =>
                  /\ \A k \in 0..(b.totalCount - 1) : checked(k)
                  /\ Issued(c, "ExportButton_startAMEBatch") # {}
            /\ \A e \in StepFailures(c) : e.idx < b.totalCount =>
                  e.idx < b.currentIndex \/ (e.idx = b.currentIndex /\ InFlight(c) # {})

\* the first item of three failed at its video check, the second at a later
\* step, the third was queued, and the batch has made its start call
C3_Witness ==
    \E c \in Clicks :
        /\ batch[c].state = "done"
        /\ batch[c].totalCount = 3
        /\ batch[c].errorCount = 2
        /\ batch[c].successCount = 1
        /\ \E e \in StepFailures(c) : e.idx = 0 /\ e.fn = "ExportButton_hasVideoForSequence"
        /\ \E e \in StepFailures(c) : e.idx = 1 /\ e.fn = "ExportButton_exportSequenceByName"
        /\ \E i \in Jobs(c) : ameQueue[i].item = 2

\* C4: a finished batch of N items in which the video check of exactly one
\* item failed and every other step succeeded has successCount = N-1 and
\* errorCount = 1.
C4_OneVideoCheckFailure ==
    \A c \in Clicks :
        (/\ batch[c].state = "done"
         /\ \E k \in 0..(batch[c].totalCount - 1) :
                StepFailures(c) = {Entry("ExportButton_hasVideoForSequence", k, "failed")})
        => /\ batch[c].successCount = batch[c].totalCount - 1
           /\ batch[c].errorCount = 1

\* C5: when the 3 s timeout fell back before the selection callback ran,
\* handleSingleExport runs exactly once for the click; the late callback
\* starts no batch, no ExportButton_startAMEBatch and no second export.
C5_TimeoutFallsBackOnce ==
    \A c \in Clicks :
        Entry("selectionTimeout", 0, "timed out") \in log[c] =>
            /\ Cardinality(Issued(c, "ExportButton_getActiveSequence")) = 1
            /\ ~IsBatch(c)
            /\ Issued(c, "ExportButton_startAMEBatch") = {}
            /\ Issued(c, "ExportButton_exportSequenceByName") = {}
            /\ Cardinality(Issued(c, "ExportButton_exportToAMEWithOptions") \cup
                           Issued(c, "ExportButton_exportDirectInPremiere")) <= 1
            /\ Cardinality(Jobs(c)) <= 1
            /\ Cardinality(Starts(c)) <= 1

\* the timeout fell back, the late reply then named selected sequences, and
\* the single export has queued its one job
C5_Witness ==
    \E c \in Clicks :
        /\ Entry("selectionTimeout", 0, "timed out") \in log[c]
        /\ Entry("ExportButton_getSelectedSequences", 0, "selected") \in log[c]
        /\ InFlight(c) = {}
        /\ Cardinality(Jobs(c)) = 1

\* C6: when the selection query reports no selected sequence, success
\* false, a missing selection API or a text that does not parse, the single
\* export of the active sequence runs and neither
\* ExportButton_exportSequenceByName nor ExportButton_startAMEBatch is called.
C6_NoSelectionBypassesBatch ==
    \A c \in Clicks :
        (\E e \in log[c] :
            /\ e.fn = "ExportButton_getSelectedSequences"
            /\ e.outcome \in {"empty", "failed", "unavailable", "unparsable"})
        => /\ ~IsBatch(c)
           /\ Cardinality(Issued(c, "ExportButton_getActiveSequence")) = 1
           /\ Issued(c, "ExportButton_exportSequenceByName") = {}
           /\ Issued(c, "ExportButton_startAMEBatch") = {}
           /\ Starts(c) \subseteq
                  {i \in 1..Len(starts) : starts[i].fn = "ExportButton_exportToAMEWithOptions"}

\* sequences are selected but the host has no selection API: the reply came
\* in time and the single export has queued the active sequence
C6_Witness ==
    \E c \in Clicks :
        /\ Entry("ExportButton_getSelectedSequences", 0, "unavailable") \in log[c]
        /\ Entry("selectionTimeout", 0, "timed out") \notin log[c]
        /\ Len(selection) >= 2
        /\ Cardinality(Jobs(c)) = 1

\* C7: a click made while direct export is enabled takes the single path:
\* ExportButton_getSelectedSequences is never queried and no batch is
\* started, whatever is selected.
C7_DirectModeSkipsSelection ==
    \A c \in Clicks :
        Entry("premiereDirect", 0, "true") \in log[c] =>
            /\ issued[c][1].fn = "ExportButton_getActiveSequence"
            /\ Issued(c, "ExportButton_getSelectedSequences") = {}
            /\ ~timer[c]
            /\ ~IsBatch(c)
            /\ Issued(c, "ExportButton_exportSequenceByName") = {}
            /\ Issued(c, "ExportButton_startAMEBatch") = {}

\* three sequences are selected, the click was made in direct mode and the
\* active sequence went to the direct export
C7_Witness ==
    \E c \in Clicks :
        /\ Entry("premiereDirect", 0, "true") \in log[c]
        /\ Len(SelectSeq(selection, LAMBDA it : it.isSequence)) = 3
        /\ Issued(c, "ExportButton_exportDirectInPremiere") # {}

\* C8: at most one batch is running at any time: a click made while a batch
\* is in progress starts no second batch.
C8_OneBatchRunning ==
    Cardinality({c \in Clicks : batch[c].state \in {"running", "finalizing"}}) <= 1

\* file name without its extension: up to the last dot
StripExtension(name) ==
    IF LastIndexOf(name, ".") > 0 THEN Prefix(name, LastIndexOf(name, ".")) ELSE name

\* C9: the file name of every export request, rendered with the version the
\* resolver returned, differs from the name (extension removed) of every
\* file already in the target folder.
C9_NoCollisionWithExistingFile ==
    \A call \in inflight :
        (/\ call.fn \in {"ExportButton_exportSequenceByName",
                         "ExportButton_exportToAMEWithOptions",
                         "ExportButton_exportDirectInPremiere"}
         \* the resolver returned the version
         /\ Entry("ExportButton_getNextVersionedFilenameWithPattern", call.idx, "failed")
                \notin log[call.click])
        => \A f \in FolderAt(call.ctx.outputPath.folder).entries :
               f.isFile => StripExtension(f.name) # call.ctx.outputPath.name

\* C10: within one batch no two jobs given to the encoder carry the same
\* output path.
C10_DistinctOutputPaths ==
    \A c \in Clicks : IsBatch(c) =>
        \A i, j \in Jobs(c) : i # j => ameQueue[i].out # ameQueue[j].out

\* the part of a file name after the base name, cut at its last dot
RemainderOf(name, baseName) ==
    LET rest == Substring(name, Len(baseName))
    IN  IF LastIndexOf(rest, ".") >= 0 THEN Prefix(rest, LastIndexOf(rest, ".")) ELSE rest

\* the versions of the files of a folder that qualify for a base name
VersionsIn(folder, baseName) ==
    {ParseInt(MatchVersionMarker(RemainderOf(e.name, baseName))) :
        e \in {x \in folder.entries :
                  /\ x.isFile
                  /\ StartsWith(ToLower(x.name), ToLower(baseName))
                  /\ MatchVersionMarker(RemainderOf(x.name, baseName)) # <<>>}}

\* the resolver was called on its own and its listing did not throw
Resolved ==
    /\ args.fn = "ExportButton_getNextVersionedFilenameWithPattern"
    /\ ret # <<>>
    /\ ~args.folder.exists \/ ~args.env.throws

\* C11: the resolver returns 1 + the numerically largest version among the
\* files (directories ignored) whose lowercased name starts with the
\* lowercased base name and whose remainder, extension stripped, contains _V
\* followed by digits; it returns 1 when the folder does not exist or no
\* file qualifies; Base_V1.mp4, Base_V2.mp4, Base_V10.mp4 and Other_V99.mp4
\* with base name Base give 11.
C11_VersionIsLargestPlusOne ==
    Resolved =>
        /\ ret[1].version =
               IF ~args.folder.exists \/ VersionsIn(args.folder, args.baseName) = {} THEN 1
               ELSE 1 + (CHOOSE m \in VersionsIn(args.folder, args.baseName) :
                            \A v \in VersionsIn(args.folder, args.baseName) : v <= m)
        /\ (/\ args.folder =
                   Folder({File(<<"B", "a", "s", "e", "_", "V", "1", ".", "m", "p", "4">>),
                           File(<<"B", "a", "s", "e", "_", "V", "2", ".", "m", "p", "4">>),
                           File(<<"B", "a", "s", "e", "_", "V", "1", "0", ".", "m", "p", "4">>),
                           File(<<"O", "t", "h", "e", "r", "_", "V", "9", "9", ".", "m", "p", "4">>)})
            /\ args.baseName = <<"B", "a", "s", "e">>)
           => ret[1].version = 11

\* the host functions that hand a sequence to an encoder
EncodeRequests ==
    {"ExportButton_exportSequenceByName", "ExportButton_exportToAMEWithOptions",
     "ExportButton_exportDirectInPremiere"}

\* the file names a sequence of the project gets at version 1
VersionOneNames ==
    {parseSuffixPattern(pattern, 1, CleanName(ProjectSequences[i].name), clock) :
        pattern \in {OrElse(settings.suffixPattern, PatDefault),
                     <<"{", "S", "E", "Q", "}", "_", "V", "1">>},
        i \in 1..Len(ProjectSequences)}

\* the replies of the resolver that click c could not use
VersionFailures(c) ==
    {e \in log[c] : e.fn = "ExportButton_getNextVersionedFilenameWithPattern"}

\* C12: whenever version resolution fails for an item (success=false, or a
\* reply that is missing or does not parse), an encode request is still
\* issued for that item, with the file name of version 1, in the batch path
\* as well as in the single path.
C12_VersionFailureFallsBackToOne ==
    \A c \in Clicks : \A e \in VersionFailures(c) :
        /\ \E i \in 1..Len(issued[c]) :
               issued[c][i].fn \in EncodeRequests /\ issued[c][i].idx = e.idx
        /\ \A call \in InFlight(c) :
               (call.fn \in EncodeRequests /\ call.idx = e.idx)
               => call.ctx.outputPath.name \in VersionOneNames

\* the text the claims prescribe for a piece of the pattern
Zeros(n) == [i \in 1..n |-> "0"]

TwoDigits(n) == <<Digits[(n \div 10) + 1], Digits[(n % 10) + 1]>>

Prescribed(piece, version, sequenceName, now) ==
    CASE piece.kind = "ver" ->
             Zeros(Len(piece.text) - 2 - Len(NumToStr(version))) \o NumToStr(version)
      [] piece.kind = "seq" -> sequenceName
      [] piece.kind = "date" ->
             NumToStr(now.year) \o <<"-">> \o TwoDigits(now.month + 1) \o <<"-">>
             \o TwoDigits(now.date)
      [] piece.kind = "time" -> TwoDigits(now.hours) \o <<"-">> \o TwoDigits(now.minutes)
      [] OTHER -> piece.text

\* out, from position pos on, spells the pieces from the i-th on: a piece
\* whose kind is in kinds as prescribed, any other piece as any text (free:
\* the piece before was such a one)
RECURSIVE Spells(_, _, _, _, _, _, _)
Spells(out, pos, free, pieces, i, kinds, call) ==
    IF i > Len(pieces) THEN free \/ pos = Len(out) + 1
    ELSE IF pieces[i].kind \notin kinds
    THEN Spells(out, pos, TRUE, pieces, i + 1, kinds, call)
    ELSE LET x == Prescribed(pieces[i], call.version, call.sequenceName, call.now)
         IN  \E q \in (IF free THEN pos..(Len(out) + 1) ELSE {pos}) :
                 /\ q + Len(x) - 1 <= Len(out)
                 /\ SubSeq(out, q, q + Len(x) - 1) = x
                 /\ Spells(out, q + Len(x), FALSE, pieces, i + 1, kinds, call)

\* the i-th call of parseSuffixPattern returned what the pieces of the
\* kinds prescribe
Rendered(i, kinds) ==
    Spells(ret[i].value, 1, FALSE, args.pieces, 1, kinds,
           [version |-> args.version, sequenceName |-> args.sequenceName,
            now |-> ret[i].now])

\* parseSuffixPattern was called on the pattern with the version and name
RenderedFrom(pattern, version, sequenceName) ==
    /\ args.fn = "parseSuffixPattern"
    /\ args.pattern = pattern
    /\ args.version = version
    /\ args.sequenceName = sequenceName
    /\ ret # <<>>

\* C13: every version token of k letters V or v becomes the decimal version
\* left-padded with zeros to width k, never truncated, each token of a
\* pattern to its own width; {SEQ}_V{VV} with 3 and Edit gives Edit_V03,
\* {SEQ}_V{VVV} gives Edit_V003, {V} with 100 gives 100.
C13_VersionTokensPadded ==
    /\ (args.fn = "parseSuffixPattern" /\ ret # <<>>) => Rendered(1, {"ver", "lit"})
    /\ RenderedFrom(<<"{", "S", "E", "Q", "}", "_", "V", "{", "V", "V", "}">>, 3,
                    <<"E", "d", "i", "t">>)
       => ret[1].value = <<"E", "d", "i", "t", "_", "V", "0", "3">>
    /\ RenderedFrom(<<"{", "S", "E", "Q", "}", "_", "V", "{", "V", "V", "V", "}">>, 3,
                    <<"E", "d", "i", "t">>)
       => ret[1].value = <<"E", "d", "i", "t", "_", "V", "0", "0", "3">>
    /\ RenderedFrom(<<"{", "V", "}">>, 100, <<"X">>) => ret[1].value = <<"1", "0", "0">>

\* a pattern with version tokens of different widths was rendered, with a
\* version of more digits than the narrowest token is wide
C13_Witness ==
    /\ args.fn = "parseSuffixPattern"
    /\ ret # <<>>
    /\ args.version = 100
    /\ \E i, j \in 1..Len(args.pieces) :
           /\ args.pieces[i].kind = "ver"
           /\ args.pieces[j].kind = "ver"
           /\ Len(args.pieces[i].text) = 3
           /\ Len(args.pieces[j].text) = 5

\* C14: every {DATE}, {TIME} and {SEQ}, in any letter case, becomes the
\* date as YYYY-MM-DD, the time as HH-MM and the sequence name; the name is
\* inserted exactly as given, also when it holds token text such as {V} or
\* {DATE} or a dollar sign followed by an ampersand or a dollar sign.
C14_DateTimeSeqTokensReplaced ==
    (args.fn = "parseSuffixPattern" /\ ret # <<>>)
    => Rendered(1, {"seq", "date", "time", "lit"})

\* C15: every part of the pattern that is no recognized token, the brace
\* tokens {X}, {VX} and {} included, appears unchanged and in the same
\* order in the result, and every call returns a result.
C15_OtherTextKept ==
    (args.fn = "parseSuffixPattern" /\ ret # <<>>)
    => /\ Rendered(1, {"lit"})
       /\ ret[1].value \in Seq({ret[1].value[i] : i \in 1..Len(ret[1].value)})

\* a pattern with an unrecognized brace token before a recognized token
\* was rendered
C15_Witness ==
    /\ args.fn = "parseSuffixPattern"
    /\ ret # <<>>
    /\ Len(args.pieces) = 2
    /\ args.pieces[1].text = <<"{", "V", "X", "}">>
    /\ args.pieces[2].kind = "seq"

\* the calls made at one clock value returned one string
SameClockSameResult ==
    \A i, j \in 1..Len(ret) : ret[i].now = ret[j].now => ret[i].value = ret[j].value

Forbidden == {"<", ">", ":", "\"", "/", "\\", "|", "?", "*"}

Sanitized(name) == [i \in 1..Len(name) |-> IF name[i] \in Forbidden THEN "_" ELSE name[i]]

\* the sequence a call in flight is about: the item of the batch, or the
\* active sequence in the single path
SequenceOf(call) ==
    IF call.owner = "queueSequenceExport" THEN call.ctx.seqName
    ELSE ProjectSequences[activeSequence].name

\* C17: the sequence name is sanitized by replacing each of the nine
\* characters < > : " / \ | ? * with an underscore and leaving every other
\* character unchanged (My:Seq/Test becomes My_Seq_Test); the sanitized
\* name is the base name given to the resolver and the value substituted
\* for {SEQ}, in the batch path and in the single path.
C17_SanitizedNameUsed ==
    /\ CleanName(<<"M", "y", ":", "S", "e", "q", "/", "T", "e", "s", "t">>)
           = <<"M", "y", "_", "S", "e", "q", "_", "T", "e", "s", "t">>
    /\ \A ch \in Forbidden \cup {"M", "y", "_", " ", "'", ".", "$"} :
           CleanName(<<"a", ch, "b">>) = <<"a", IF ch \in Forbidden THEN "_" ELSE ch, "b">>
    /\ \A call \in inflight :
           /\ (call.fn = "ExportButton_getNextVersionedFilenameWithPattern"
                /\ call.owner = "queueSequenceExport")
              => call.ctx.cleanName = Sanitized(SequenceOf(call))
           /\ (call.fn = "ExportButton_getNextVersionedFilenameWithPattern"
                /\ call.owner = "getVersionedFilenameAndExport")
              => call.ctx.baseName = Sanitized(SequenceOf(call))
           /\ call.fn \in EncodeRequests
              => /\ StartsWith(call.ctx.outputPath.name, Sanitized(SequenceOf(call)))
                 /\ \A i \in 1..Len(call.ctx.outputPath.name) :
                        call.ctx.outputPath.name[i] \notin Forbidden

\* an encode request is in flight for a sequence whose name holds one of
\* the nine characters, in the single path
C17_Witness ==
    \E call \in inflight :
        /\ call.fn \in EncodeRequests
        /\ call.owner = "executeExport"
        /\ SequenceOf(call) # Sanitized(SequenceOf(call))

\* the export requests of direct mode, whose output path carries an extension
DirectRequests == {call \in inflight : call.fn = "ExportButton_exportDirectInPremiere"}

\* word occurs in text, in any letter case
Mentions(text, word) == Contains(ToLower(text), ToLower(word))

\* the name of the preset file: what follows the last slash or backslash
PresetFileName(presetPath) ==
    CHOOSE name \in {Substring(presetPath, n) : n \in 0..Len(presetPath)} :
        /\ \A i \in 1..Len(name) : name[i] \notin {"/", "\\"}
        /\ \A longer \in {Substring(presetPath, n) : n \in 0..Len(presetPath)} :
               (\A i \in 1..Len(longer) : longer[i] \notin {"/", "\\"})
               => Len(longer) <= Len(name)

\* the words that stand for the .mp4 formats, and all the format words
Mp4Words ==
    {<<"h", ".", "2", "6", "4">>, <<"h", "2", "6", "4">>, <<"h", "e", "v", "c">>,
     <<"h", ".", "2", "6", "5">>, <<"y", "o", "u", "t", "u", "b", "e">>,
     <<"v", "i", "m", "e", "o">>, <<"f", "a", "c", "e", "b", "o", "o", "k">>,
     <<"t", "w", "i", "t", "t", "e", "r">>}

FormatWords ==
    Mp4Words \cup
    {<<"p", "r", "o", "r", "e", "s">>, <<"q", "u", "i", "c", "k", "t", "i", "m", "e">>,
     <<"a", "p", "p", "l", "e">>, <<".", "m", "o", "v">>, <<"d", "n", "x", "h", "d">>,
     <<"d", "n", "x", "h", "r">>, <<"m", "x", "f">>, <<"a", "v", "i">>,
     <<"w", "e", "b", "m">>, <<"v", "p", "9">>, <<"v", "p", "8">>, <<"w", "a", "v">>,
     <<"w", "a", "v", "e">>, <<"a", "i", "f", "f">>, <<"m", "p", "3">>,
     <<"a", "a", "c">>}

\* C18: in direct mode the output path sent to the host ends with .mov for
\* every preset path containing ProRes, with .mp4 for every preset path
\* containing YouTube, and with .wav for a preset without recognizable
\* keyword when hasVideo is false.
C18_ExtensionFromPresetPath ==
    \A call \in DirectRequests :
        LET path == call.ctx.presetPath
            ext  == call.ctx.outputPath.ext
        IN  /\ Contains(path, <<"P", "r", "o", "R", "e", "s">>) => ext = ".mov"
            /\ Contains(path, <<"Y", "o", "u", "T", "u", "b", "e">>) => ext = ".mp4"
            /\ ((\A w \in FormatWords : ~Mentions(path, w)) /\ ~args.hasVideo)
               => ext = ".wav"

\* C18, amended: in direct mode the output path sent to the host ends with
\* .mov when the name of the preset file holds ProRes and none of the .mp4
\* words, with .mp4 when it holds YouTube, and with .wav when it holds no
\* format word and hasVideo is false (letter case does not matter).
C18_ExtensionFromPresetFileName ==
    \A call \in DirectRequests :
        LET name == PresetFileName(call.ctx.presetPath)
            ext  == call.ctx.outputPath.ext
        IN  /\ (/\ Mentions(name, <<"P", "r", "o", "R", "e", "s">>)
                /\ \A w \in Mp4Words : ~Mentions(name, w))
               => ext = ".mov"
            /\ Mentions(name, <<"Y", "o", "u", "T", "u", "b", "e">>) => ext = ".mp4"
            /\ ((\A w \in FormatWords : ~Mentions(name, w)) /\ ~args.hasVideo)
               => ext = ".wav"

\* executeExport sent a direct export with a ProRes preset kept in a folder
\* named after another format
C18_Witness ==
    \E call \in DirectRequests :
        /\ args.fn = "executeExport"
        /\ Mentions(PresetFileName(call.ctx.presetPath), <<"P", "r", "o", "R", "e", "s">>)
        /\ Mentions(call.ctx.presetPath, <<"Y", "o", "u", "T", "u", "b", "e">>)
        /\ call.ctx.outputPath.ext = ".mov"

\* the scripts that ask the host for a folder
FolderQueries ==
    {"getSystemInfo", "ExportButton_getSystemInfo", "ExportButton_getProjectExportsPath",
     "ExportButton_getProjectExportsPathWithDepth"}

\* the folder the settings name for the items of the batch of click c
ConfiguredFolder(c) ==
    IF batch[c].downloadEnabled
    THEN IF settings.fixedFolder # "" THEN settings.fixedFolder ELSE DownloadsDir
    ELSE ExportButton_getProjectExportsPathWithDepth(
             [projectOpen |-> TRUE, throws |-> FALSE],
             IF settings.exportFolder = "" THEN "EXPORTS" ELSE settings.exportFolder,
             IF settings.folderDepth \in {"", "0"} THEN 0 ELSE 1).path

\* C19: the output folder of each batch item is the configured fixed folder
\* when download mode is enabled and the fixed folder is non-blank, the
\* Downloads folder when download mode is enabled and the fixed folder is
\* blank, and otherwise the project-relative export folder built from the
\* configured folder name and depth.  So an item's file name is resolved in
\* that folder, a configured fixed folder is not asked of the host, and a
\* folder asked of the host is asked with a function the host defines.
C19_BatchOutputFolder ==
    \A c \in Clicks : IsBatch(c) =>
        /\ \A call \in InFlight(c) :
               call.fn = "ExportButton_getNextVersionedFilenameWithPattern"
               => call.ctx.folderPath = ConfiguredFolder(c)
        /\ \A i \in 1..Len(issued[c]) :
               issued[c][i].fn \in FolderQueries
               => /\ issued[c][i].fn \in HostFunctions
                  /\ ~(batch[c].downloadEnabled /\ settings.fixedFolder # "")

\* the preset the settings name for an item: the configured entry, or the
\* built-in default of the platform when the entry is empty
ConfiguredPreset(hasVideo) ==
    IF hasVideo
    THEN IF settings.videoPreset # <<>> THEN settings.videoPreset ELSE defaultPresets.video
    ELSE IF settings.audioPreset # <<>> THEN settings.audioPreset ELSE defaultPresets.audio

VideoChecked ==
    /\ args.fn \in {"ExportButton_hasVideoTracks", "ExportButton_hasVideoForSequence"}
    /\ ret # <<>>

\* the sequences the video check was about: the active one, or the first of
\* app.project.sequences that bears the name (none: no such sequence)
CheckedSequences ==
    IF args.fn = "ExportButton_hasVideoTracks"
    THEN {ProjectSequences[i] : i \in {activeSequence} \ {0}}
    ELSE {ProjectSequences[i] :
             i \in {k \in 1..Len(ProjectSequences) :
                       /\ ProjectSequences[k].name = args.sequenceName
                       /\ \A j \in 1..(k - 1) :
                              ProjectSequences[j].name # args.sequenceName}}

\* C21: ExportButton_hasVideoForSequence and ExportButton_hasVideoTracks
\* report hasVideo = true exactly when at least one video track of the
\* sequence has one or more clips and is not muted; a sequence whose only
\* tracks with clips are muted, or whose tracks are all empty, reports
\* hasVideo = false.  (A call that reports an error reports no video.)
C21_HasVideoIffVisibleClips ==
    VideoChecked =>
        /\ ret[1].success <=> (CheckedSequences # {} /\ ~args.env.throws)
        /\ ~ret[1].success => ~ret[1].hasVideo
        /\ \A seq \in CheckedSequences :
               /\ ret[1].success =>
                      (ret[1].hasVideo <=>
                          \E i \in 1..Len(seq.tracks) :
                              seq.tracks[i].numItems >= 1 /\ ~seq.tracks[i].muted)
               /\ (\A i \in 1..Len(seq.tracks) :
                       seq.tracks[i].numItems = 0 \/ seq.tracks[i].muted)
                  => ~ret[1].hasVideo

\* the check of a sequence whose one track with clips is muted answered
\* without error
C21_Witness ==
    /\ VideoChecked
    /\ ret[1].success
    /\ \E seq \in CheckedSequences : \E i \in 1..Len(seq.tracks) :
           seq.tracks[i].numItems >= 1 /\ seq.tracks[i].muted

\* a step of an export: a click, the timeout or a callback
ExportStep ==
    <<clickVars, inflight, issued, log, hostVars>>'
        # <<clickVars, inflight, issued, log, hostVars>>

\* C22: no step of an export (the click and everything it triggers in the
\* batch or the single path, through the last callback) writes a settings
\* key; the stored settings change only through the settings dialog
\* (saveSettings) and the download checkbox.
C22_ExportWritesNoSetting ==
    [][/\ ExportStep => UNCHANGED <<settings, downloadChecked>>
       /\ settings' # settings
          => \/ /\ \E form \in SettingsForms :
                      settings' = setItems(settings, saveSettings(form))
                /\ UNCHANGED downloadChecked
             \/ /\ downloadChecked' # downloadChecked
                /\ settings' = setItems(settings,
                                        [downloadEnabled |-> BoolStr(downloadChecked')])
       /\ downloadChecked' # downloadChecked => settings' # settings]_vars

\* a batch of two items has run to its end and queued both, from a fresh
\* installation whose settings were never saved
C22_Witness ==
    \E c \in Clicks :
        /\ batch[c].state = "done"
        /\ batch[c].successCount = 2
        /\ settings = FreshSettings

\* what localStorage can hold: nothing, or what a save of the dialog wrote
StoredSettings == {FreshSettings} \cup {saveSettings(f) : f \in SettingsForms}

\* the name of item k of the batch of click c at a version, under settings s
ItemName(c, k, s, version) ==
    parseSuffixPattern(IF s.suffixPattern = <<>> THEN PatDefault ELSE s.suffixPattern,
                       version, Sanitized(batch[c].sequences[k + 1].name), clock)

\* the presets settings s name
PresetsOf(s) ==
    {IF s.videoPreset = <<>> THEN defaultPresets.video ELSE s.videoPreset,
     IF s.audioPreset = <<>> THEN defaultPresets.audio ELSE s.audioPreset}

\* the jobs the batch of click c has queued were all made from settings s
QueuedFrom(c, s) ==
    \A i \in Jobs(c) :
        /\ ameQueue[i].preset \in PresetsOf(s)
        /\ \E version \in 1..(MaxFiles + 1) :
               ameQueue[i].out.name = ItemName(c, ameQueue[i].item, s, version)

\* C23: a batch runs on the settings snapshot taken at batch start: a
\* settings change saved while the batch is running does not change the
\* preset path, the naming pattern or the output folder used for the
\* remaining items.  So the jobs of one batch were all made from one value
\* of the settings, and all go to one folder.
C23_BatchUsesOneSnapshot ==
    \A c \in Clicks : IsBatch(c) =>
        /\ \E s \in StoredSettings : QueuedFrom(c, s)
        /\ \A i, j \in Jobs(c) : ameQueue[i].out.folder = ameQueue[j].out.folder

\* the encode requests click c has issued in the single path
SingleRequests(c) ==
    Issued(c, "ExportButton_exportToAMEWithOptions")
    \cup Issued(c, "ExportButton_exportDirectInPremiere")

\* C24: the single path issues at most one encode request per click
\* (ExportButton_exportToAMEWithOptions or ExportButton_exportDirectInPremiere,
\* never both and never twice); the host call that queues the job starts the
\* encoder queue itself, and no ExportButton_startAMEBatch is called.
C24_SingleExportOneRequest ==
    [][\A c \in Clicks : ~IsBatch(c)' =>
           /\ Cardinality(SingleRequests(c)') <= 1
           /\ Issued(c, "ExportButton_startAMEBatch")' = {}
           /\ Issued(c, "ExportButton_exportSequenceByName")' = {}
           /\ Cardinality(Jobs(c)') <= 1
           /\ Jobs(c)' # Jobs(c)
              => /\ ameStarted' = Len(ameQueue')
                 /\ starts' = Append(starts, [click |-> c,
                                              fn |-> "ExportButton_exportToAMEWithOptions"])
           /\ \A i \in Starts(c)' : starts'[i].fn = "ExportButton_exportToAMEWithOptions"]_vars

\* a single export has queued its job through the encoder and the queue is
\* started
C24_Witness ==
    \E c \in Clicks :
        /\ ~IsBatch(c)
        /\ Issued(c, "ExportButton_exportToAMEWithOptions") # {}
        /\ Cardinality(Jobs(c)) = 1
        /\ ameStarted = Len(ameQueue)
        /\ InFlight(c) = {}

\* the items of the batch of click c whose video check was sent, in order
ItemsTaken(c) ==
    [k \in 1..Cardinality(Issued(c, "ExportButton_hasVideoForSequence")) |->
        issued[c][CHOOSE i \in Issued(c, "ExportButton_hasVideoForSequence") :
                      Cardinality({j \in Issued(c, "ExportButton_hasVideoForSequence") :
                                      j <= i}) = k].idx]

\* C25: if every remote call issued during a batch eventually invokes its
\* callback, then whatever the items and their outcomes the batch
\* eventually issues the start call and reports its final counts; it never
\* stops midway and never takes an item twice.
C25_BatchRunsToCompletion ==
    /\ \A c \in Clicks :
           batch[c].state = "running"
           ~> /\ batch[c].state = "done"
              /\ Cardinality(Issued(c, "ExportButton_startAMEBatch")) = 1
              /\ batch[c].successCount + batch[c].errorCount = batch[c].totalCount
              /\ ItemsTaken(c) = [k \in 1..batch[c].totalCount |-> k - 1]
    /\ [](\A c \in Clicks :
             \A k \in 1..Len(ItemsTaken(c)) : ItemsTaken(c)[k] = k - 1)

\* a batch of three items has reported its counts: one item queued, one
\* given up on a reported failure and one on a reply that did not parse
C25_Witness ==
    \E c \in Clicks :
        /\ batch[c].state = "done"
        /\ batch[c].totalCount = 3
        /\ batch[c].successCount = 1
        /\ batch[c].errorCount = 2
        /\ \E e \in StepFailures(c) : e.fn = "ExportButton_exportSequenceByName"
        /\ \E e \in StepFailures(c) : e.fn = "ExportButton_hasVideoForSequence"

\* the step is the callback of a per-item call of a batch, run on a reply
\* that JSON.parse rejects
MalformedReply(call) ==
    \/ \E env \in CallEnvs : ~Parsable(env, call.fn) /\ OnHasVideoForSequence(call, env)
    \/ \E env \in CallEnvs : ~Parsable(env, call.fn) /\ OnBatchSystemInfo(call, env)
    \/ \E env \in QueryEnvs : ~Parsable(env, call.fn) /\ OnProjectExportsPath(call, env)
    \/ \E env \in VersionEnvs : ~Parsable(env, call.fn) /\ OnBatchVersion(call, env)
    \/ \E env \in EncodeEnvs : ~Parsable(env, call.fn) /\ OnExportSequenceByName(call, env)

\* the step counts the item of the call as one error and goes on to the
\* next item, or to the start call after the last item
ItemGivenUp(call) ==
    LET c == call.click IN
    /\ batch'[c].errorCount = batch[c].errorCount + 1
    /\ batch'[c].successCount = batch[c].successCount
    /\ batch'[c].successCount + batch'[c].errorCount = call.idx + 1
    /\ batch'[c].currentIndex = call.idx + 1
    /\ ameQueue' = ameQueue
    /\ \E next \in inflight' :
           /\ next.click = c
           /\ next.idx = call.idx + 1
           /\ next.fn = IF call.idx + 1 < batch[c].totalCount
                        THEN "ExportButton_hasVideoForSequence"
                        ELSE "ExportButton_startAMEBatch"

\* C26: during a batch, a malformed or missing response to any per-item
\* remote call (video check, path query, version query, submission) is
\* caught, increments errorCount by exactly one for that item, never
\* increments successCount for it, and lets the batch continue with the next
\* item.
C26_MalformedReplyCountsOneError ==
    [][\A call \in inflight : MalformedReply(call) => ItemGivenUp(call)]_vars

\* the reply to the video check of the first item did not parse: the item
\* is counted as an error and the call of the second item is in flight
C26_Witness ==
    \E c \in Clicks :
        /\ batch[c].state = "running"
        /\ batch[c].errorCount = 1
        /\ batch[c].currentIndex = 1
        /\ StepFailures(c) = {Entry("ExportButton_hasVideoForSequence", 0, "failed")}
        /\ \E call \in InFlight(c) : call.idx = 1

\* C27: with the default pattern {SEQ}_V{V}, exporting the same sequence
\* again and again into the same initially empty folder, each export
\* started after the output file of the one before is in the folder,
\* produces the names <name>_V1, <name>_V2, <name>_V3, ... in that order,
\* none repeated and none skipped.
C27_VersionsCountUp ==
    args.fn = "getVersionedFilenameAndExport" =>
        \A k \in 1..Len(ret) :
            ret[k] = Sanitized(args.sequenceName) \o <<"_", "V">> \o NumToStr(k)

\* C28: when "Export In/Out range only" is enabled, every job the export
\* button puts on the encoder queue, for the active sequence and for every
\* item of a batch, asks for the In/Out range (range type 1) and not for
\* the entire sequence (range type 0).
C28_InOutHonoured ==
    settings.inoutExport = "true" =>
        \A i \in 1..Len(ameQueue) : ameQueue[i].range = 1

\* C29: the version ExportButton_getNextVersionedFilenameWithPattern returns
\* depends only on the folder's file names and the base name: with the same
\* folder and base name, every other naming pattern and every other
\* extension gives the version the call gave; a file with another extension
\* counts as a candidate.
ResolverReturned ==
    args.fn = "ExportButton_getNextVersionedFilenameWithPattern" /\ ret # <<>>

ListingThrows == args.folder.exists /\ args.env.throws

C30_FailsOnlyWhenListingThrows ==
    ResolverReturned =>
        /\ ret[1].success = ~ListingThrows
        /\ ret[1].version \in Nat \ {0}

\* the folder holds Base_V.mp4 and Base_V0.mp4 only and is listed without
\* an exception: success, version 1
C30_Witness ==
    /\ ResolverReturned
    /\ ~args.env.throws
    /\ args.folder.entries =
           {File(<<"B", "a", "s", "e", "_", "V", ".", "m", "p", "4">>),
            File(<<"B", "a", "s", "e", "_", "V", "0", ".", "m", "p", "4">>)}
    /\ ret[1] = [success |-> TRUE, version |-> 1]

\* C31: throughout a batch of N items currentIndex never decreases, grows
\* by one at a time, each time together with exactly one of successCount
\* and errorCount and only when the pending call of the current item is
\* answered, and stays within 0..N; whenever processNextSequence has been
\* entered successCount + errorCount = currentIndex, so a finalized batch
\* has successCount + errorCount = N.
C31_IndexCountsItems ==
    [][\A c \in Clicks : IsBatch(c)' =>
          LET b == batch[c]
              n == batch'[c]
          IN  /\ n.currentIndex \in 0..n.totalCount
              /\ n.successCount + n.errorCount = n.currentIndex
              /\ n.state \in {"finalizing", "done"} =>
                     n.successCount + n.errorCount = n.totalCount
              /\ ~IsBatch(c) => n.currentIndex = 0 /\ n.totalCount = Len(n.sequences)
              /\ IsBatch(c) =>
                     /\ n.totalCount = b.totalCount
                     /\ n.currentIndex \in {b.currentIndex, b.currentIndex + 1}
                     /\ n.successCount >= b.successCount
                     /\ n.errorCount >= b.errorCount
                     /\ n.currentIndex = b.currentIndex + 1 =>
                            \E call \in inflight \ inflight' :
                                call.click = c /\ call.idx = b.currentIndex]_vars

\* two of three items are behind: one was queued and one given up, and the
\* third is being served
C31_Witness ==
    \E c \in Clicks :
        /\ batch[c].state = "running"
        /\ batch[c].totalCount = 3
        /\ batch[c].currentIndex = 2
        /\ batch[c].successCount = 1
        /\ batch[c].errorCount = 1

\* the per-item calls of running batches whose callback has not run
PendingItemCalls ==
    {call \in inflight :
        /\ batch[call.click].state = "running"
        /\ call.fn \in {"ExportButton_hasVideoForSequence", "getSystemInfo",
                        "ExportButton_getProjectExportsPath",
                        "ExportButton_getNextVersionedFilenameWithPattern",
                        "ExportButton_exportSequenceByName"}}

\* C32: as long as a per-item call of a batch (video check, path query,
\* version query or submission) has not invoked its callback, the batch
\* makes no progress: whatever else happens, its counters and current item
\* stay as they are, it sends no call (so no later item is taken and no
\* start call is issued) and queues no job; no timer takes the place of
\* the callback.
C32_HungCallStallsBatch ==
    [][\A call \in PendingItemCalls : call \in inflight' =>
          LET c == call.click IN
          /\ batch'[c] = batch[c]
          /\ issued'[c] = issued[c]
          /\ InFlight(c)' = {call}
          /\ Jobs(c)' = Jobs(c)
          /\ Starts(c)' = Starts(c)
          /\ timer'[c] = timer[c]]_vars

\* the version query of the first of two items is still pending after the
\* download checkbox was switched: nothing else of the batch was sent
C32_Witness ==
    \E c \in Clicks :
        /\ batch[c].state = "running"
        /\ batch[c].totalCount = 2
        /\ batch[c].currentIndex = 0
        /\ batch[c].downloadEnabled # downloadChecked
        /\ \E call \in InFlight(c) :
               call.fn = "ExportButton_getNextVersionedFilenameWithPattern"
        /\ Issued(c, "ExportButton_startAMEBatch") = {}

\* the step is the callback of ExportButton_getActiveSequence, run on a
\* reply that is empty, an error text or otherwise no JSON, or that says
\* success=false
ActiveSequenceFailed(call) ==
    \E env \in QueryEnvs :
        /\ ~Parsable(env, call.fn) \/ ~ExportButton_getActiveSequence(env, activeSequence).success
        /\ OnActiveSequence(call, env)

\* click c has nothing left that could send a call: its timer is spent and
\* at most the selection query that timed out is still with the host
AttemptOver(c) ==
    /\ c \in 1..nclicks
    /\ ~(timer[c] /\ ~fired[c])
    /\ \A call \in InFlight(c) :
           call.fn = "ExportButton_getSelectedSequences" /\ fired[c]

\* C33: in the single-item path a reply of ExportButton_getActiveSequence
\* that is empty, an error text, unparsable or success=false ends the
\* export attempt: the callback sends nothing and queues nothing, and from
\* then on the click issues no video check, version query or encode
\* request and repeats no call.
C33_NoActiveSequenceEndsAttempt ==
    [][/\ \A call \in inflight : ActiveSequenceFailed(call) =>
              /\ issued'[call.click] = issued[call.click]
              /\ ameQueue' = ameQueue
              /\ starts' = starts
              /\ AttemptOver(call.click)'
       /\ \A c \in Clicks : AttemptOver(c) =>
              /\ issued'[c] = issued[c]
              /\ Jobs(c)' = Jobs(c)
              /\ AttemptOver(c)']_vars

\* nothing is selected and no sequence is active: the click has asked for
\* the selection and for the active sequence and has nothing pending
C33_Witness ==
    \E c \in Clicks :
        /\ activeSequence = 0
        /\ AttemptOver(c)
        /\ InFlight(c) = {}
        /\ [i \in 1..Len(issued[c]) |-> issued[c][i].fn] =
               <<"ExportButton_getSelectedSequences", "ExportButton_getActiveSequence">>
        /\ ameQueue = <<>>

FlagKeys == {"downloadEnabled", "inoutExport", "premiereDirect"}

\* C34: a boolean flag (download mode, In/Out export, direct export) is
\* stored only as the string true or false; it reads back as enabled
\* exactly when the value written last was true (no step but the write of
\* a flag changes what is stored for it), and a key that was never written
\* reads as disabled.
C34_FlagsRoundTrip ==
    [][/\ \A form \in FlagForms : SaveSettings(form) =>
              /\ settings'.inoutExport \in {"true", "false"}
              /\ settings'.premiereDirect \in {"true", "false"}
              /\ FlagEnabled(settings', "inoutExport") = form.inoutExport
              /\ FlagEnabled(settings', "premiereDirect") = form.premiereDirect
              /\ settings'.downloadEnabled = settings.downloadEnabled
       /\ ToggleDownload =>
              /\ settings'.downloadEnabled \in {"true", "false"}
              /\ FlagEnabled(settings', "downloadEnabled") = downloadChecked'
              /\ loadSettings(settings') = downloadChecked'
              /\ settings'.inoutExport = settings.inoutExport
              /\ settings'.premiereDirect = settings.premiereDirect
       /\ CallExecuteExport =>
              /\ \A key \in FlagKeys : settings'[key] = settings[key]
              /\ \A call \in inflight' :
                     /\ call.ctx.useInOut = FlagEnabled(settings, "inoutExport")
                     /\ (call.fn = "ExportButton_exportDirectInPremiere")
                            = FlagEnabled(settings, "premiereDirect")
       /\ \A key \in FlagKeys :
              /\ settings'[key] \in {"null", "true", "false"}
              /\ settings[key] # "null" => settings'[key] # "null"
              /\ settings'[key] = "null" => ~FlagEnabled(settings', key)]_vars

\* In/Out export was saved as enabled and direct export as disabled, the
\* download checkbox was set and cleared again, and executeExport has asked
\* the encoder for the In/Out range
C34_Witness ==
    /\ settings.inoutExport = "true"
    /\ settings.premiereDirect = "false"
    /\ settings.downloadEnabled = "false"
    /\ ~downloadChecked
    /\ \E call \in inflight :
           call.fn = "ExportButton_exportToAMEWithOptions" /\ call.ctx.useInOut

\* the times handleSingleExport and handleBatchExport were invoked for
\* click c: each invocation sends its first call at once
SingleInvocations(c) == Cardinality(Issued(c, "ExportButton_getActiveSequence"))

BatchInvocations(c) ==
    Cardinality({i \in 1..Len(issued[c]) :
                    issued[c][i] = [fn |-> "ExportButton_hasVideoForSequence", idx |-> 0]})

TimedOut(c) == Entry("selectionTimeout", 0, "timed out") \in log[c]

\* C35: for a click that queries the selection, whatever the order of the
\* selection callback and the 3 s timer, handleBatchExport and
\* handleSingleExport are invoked once in all: none before either has run,
\* exactly one of them, exactly once, afterwards.  Once the callback ran
\* first the timer is cleared and triggers nothing; a batch is started by
\* the callback only.
C35_OneHandlerPerClick ==
    \A c \in Clicks : Issued(c, "ExportButton_getSelectedSequences") # {} =>
        /\ SingleInvocations(c) + BatchInvocations(c) = IF fired[c] THEN 1 ELSE 0
        /\ IsBatch(c) <=> BatchInvocations(c) = 1
        /\ timer[c] => ~fired[c]
        /\ TimedOut(c) => SingleInvocations(c) = 1
        /\ fired[c] /\ ~TimedOut(c) =>
               /\ ~timer[c]
               /\ \A call \in InFlight(c) : call.fn # "ExportButton_getSelectedSequences"

\* the selection callback came in time and started a batch of two, which
\* has run to its end with the timer cleared
C35_Witness ==
    \E c \in Clicks :
        /\ fired[c]
        /\ ~timer[c]
        /\ ~TimedOut(c)
        /\ batch[c].state = "done"
        /\ batch[c].totalCount = 2
        /\ SingleInvocations(c) = 0

\* the encode requests whose callback has not run
PendingEncodeRequests == {call \in inflight : call.fn \in EncodeRequests}

\* C36: no encode request (ExportButton_exportSequenceByName,
\* ExportButton_exportToAMEWithOptions, ExportButton_exportDirectInPremiere)
\* is issued with an empty preset path, also when the button is clicked
\* before getSystemInfo has loaded the default presets or when that load
\* failed.
C36_NoEmptyPreset ==
    \A call \in PendingEncodeRequests : call.ctx.presetPath # <<>>

\* the mode click c read from the settings when handleExport ran
DirectAtClick(c) == Entry("premiereDirect", 0, "true") \in log[c]

\* C37: the export mode read at click time is the mode of the click's
\* encode request: a click made with direct export disabled never issues
\* ExportButton_exportDirectInPremiere, and a click made with it enabled
\* never issues a queue-based request, also when the setting is saved
\* while the click's callbacks are pending.
C37_ModeOfClickIsModeOfRequest ==
    \A c \in 1..nclicks :
        IF DirectAtClick(c)
        THEN /\ Issued(c, "ExportButton_exportToAMEWithOptions") = {}
             /\ Issued(c, "ExportButton_exportSequenceByName") = {}
        ELSE Issued(c, "ExportButton_exportDirectInPremiere") = {}

\* C38: the callback of ExportButton_startAMEBatch does not inspect the
\* reply: whether the start call returned success, a failure such as 'AME
\* not available' or a text that does not parse, successCount and
\* errorCount stay as they are and the batch is reported as started with
\* successCount of totalCount.
C38_StartReplyNotInspected ==
    [][\A call \in inflight, env \in StartEnvs : OnStartAMEBatch(call, env) =>
          /\ batch[call.click].state = "finalizing"
          /\ batch'[call.click] = [batch[call.click] EXCEPT !.state = "done"]
          /\ InFlight(call.click)' = {}
          /\ issued' = issued
          /\ ameQueue' = ameQueue]_vars

\* both items of a batch were queued and the start call failed: the batch
\* is reported with two of two and no error, and the queue was not started
C38_Witness ==
    \E c \in Clicks :
        /\ batch[c].state = "done"
        /\ batch[c].totalCount = 2
        /\ batch[c].successCount = 2
        /\ batch[c].errorCount = 0
        /\ StepFailures(c) = {Entry("ExportButton_startAMEBatch", 2, "failed")}
        /\ ameStarted = 0
        /\ Len(ameQueue) = 2

\* the extensions getExtensionFromPreset can return
Extensions == {".mp4", ".mov", ".mxf", ".avi", ".webm", ".wav", ".aiff", ".mp3", ".aac"}

\* C39: the panel appends a file extension to the output path exactly when
\* direct export is enabled as executeExport runs: a direct export is sent
\* with one extension after the rendered file name, a queue-based single
\* export and every submission of a batch with the rendered file name and
\* nothing after it.
C39_ExtensionOnlyForDirectExport ==
    \A call \in PendingEncodeRequests :
        /\ call.fn = "ExportButton_exportDirectInPremiere" =>
               /\ settings.premiereDirect = "true"
               /\ call.ctx.outputPath.ext \in Extensions
        /\ call.fn = "ExportButton_exportToAMEWithOptions" =>
               /\ settings.premiereDirect # "true"
               /\ call.ctx.outputPath.ext = ""
        /\ call.fn = "ExportButton_exportSequenceByName" =>
               call.ctx.outputPath.ext = ""
        /\ call.ctx.outputPath.name # <<>>

\* a direct export of the active sequence is pending, sent with the
\* extension of its preset
C39_Witness ==
    \E call \in PendingEncodeRequests :
        /\ call.fn = "ExportButton_exportDirectInPremiere"
        /\ call.ctx.outputPath.ext = getExtensionFromPreset(call.ctx.presetPath, TRUE)
        /\ call.ctx.outputPath.ext # ""
        /\ call.ctx.outputPath.folder = ExportsDir

====
